---- MODULE Spec2Model ----
(***************************************************************************)
(* The UCG evaluator (src/src/build/mod.rs) and the macro validator        *)
(* (src/src/ast/mod.rs) as a state machine.                                *)
(*                                                                         *)
(* State: one Builder at a time (the driver constructs a Builder per file  *)
(* and may construct further Builders over the same asset cache, which the *)
(* Builder record carries), and the return value of the last build_stmt.   *)
(* Every build_stmt call is one action; expression evaluation is the       *)
(* recursive operator eval_expr, which threads the Builder because         *)
(* evaluation pushes and pops the self stack and (through imports) writes  *)
(* the shared cache.                                                       *)
(***************************************************************************)
EXTENDS Integers, Sequences, FiniteSets

VARIABLES
    b,        \* the Builder in use (see new_with_env_and_scope).  b.assets is the
              \* Rc<RefCell<assets::Cache>> every Builder of a run shares, and
              \* b.built the history of the build_file calls: the canonical path
              \* evaluated and whether its statements all returned Ok
    stmt,     \* history: Some(the statement the last build_stmt call was given)
    ret,      \* history: what that call returned (Ok(val) or Err(kind, pos))
    nstmts,   \* statements this Builder has been given
    nbuilders, \* Builders constructed so far over this asset cache
    pending   \* the statements Builder::build has still to iterate over

vars == <<b, stmt, ret, nstmts, nbuilders, pending>>

-----------------------------------------------------------------------------
(* Bounds *)

MaxStmts == 2
MaxBuilders == 2
MaxOverrides == 2
MaxArgs == 2
MaxListLen == 3

-----------------------------------------------------------------------------
(* Option<T>: None is the empty sequence, Some(x) the one-element sequence *)

None == <<>>
Some(x) == <<x>>
IsSome(o) == Len(o) > 0
Unwrap(o) == o[1]

(* Result<Rc<Val>, Box<Error>>: errors carry their ErrorType and Position *)
Ok(v) == [ok |-> TRUE, val |-> v]
Err(kind, pos) == [ok |-> FALSE, kind |-> kind, pos |-> pos]

(* A Token: fragment and position.  A Position is the token's offset in   *)
(* its statement: distinct tokens of one statement have distinct pos.     *)
Tok(f, p) == [fragment |-> f, pos |-> p]

-----------------------------------------------------------------------------
(* Val, the reduced values.  Each kind keeps its payload under its own    *)
(* field name.                                                            *)

VEmpty == [k |-> "Empty"]
VBoolean(x) == [k |-> "Boolean", b |-> x]
VInt(x) == [k |-> "Int", n |-> x]
VStr(x) == [k |-> "Str", s |-> x]   \* x: the string as a sequence of characters
VList(xs) == [k |-> "List", elems |-> xs]
VTuple(fs) == [k |-> "Tuple", fields |-> fs]
VMacro(d) == [k |-> "Macro", def |-> d]
VModule(d) == [k |-> "Module", def |-> d]
VEnv(vs) == [k |-> "Env", vars |-> vs]

type_equal(x, y) == x.k = y.k
is_empty(x) == x.k = "Empty"

-----------------------------------------------------------------------------
(* Sequence helpers *)

RECURSIVE IndexOfName(_, _, _)
IndexOfName(fs, name, i) ==
    IF i > Len(fs) THEN 0
    ELSE IF fs[i][1] = name THEN i
    ELSE IndexOfName(fs, name, i + 1)

Names(fs) == {fs[i][1] : i \in 1..Len(fs)}

-----------------------------------------------------------------------------
(* The AST (src/src/ast/mod.rs).  Expression::Simple(Value::X) nodes are   *)
(* the nodes whose tag is in SimpleTags.                                   *)

EEmpty(p) == [e |-> "Empty", pos |-> p]
EBool(x, p) == [e |-> "Boolean", b |-> x, pos |-> p]
EInt(x, p) == [e |-> "Int", n |-> x, pos |-> p]
EStr(x, p) == [e |-> "Str", s |-> x, pos |-> p]
ESym(x, p) == [e |-> "Symbol", sym |-> x, pos |-> p]
ETuple(fs, p) == [e |-> "Tuple", fields |-> fs, pos |-> p]
EList(es, p) == [e |-> "List", elems |-> es, pos |-> p]
(* SelectorDef{pos, sel: SelectorList{head, tail}}; tail is an Option *)
SelectorDef(h, t, p) == [head |-> h, tail |-> t, pos |-> p]
ESel(h, t, p) == [e |-> "Selector", sel |-> SelectorDef(h, t, p), pos |-> p]
EBinary(kd, l, r, p) == [e |-> "Binary", kind |-> kd, left |-> l, right |-> r, pos |-> p]
ECompare(kd, l, r, p) == [e |-> "Compare", kind |-> kd, left |-> l, right |-> r, pos |-> p]
ECopy(sel, fs, p) == [e |-> "Copy", selector |-> sel, fields |-> fs, pos |-> p]
EGrouped(x) == [e |-> "Grouped", expr |-> x]
EFormat(t, as, p) == [e |-> "Format", template |-> t, args |-> as, pos |-> p]
ECall(sel, as, p) == [e |-> "Call", macroref |-> sel, arglist |-> as, pos |-> p]
EMacro(ad, fs, p) == [e |-> "Macro", argdefs |-> ad, fields |-> fs, pos |-> p]
ESelect(v, d, t, p) == [e |-> "Select", val |-> v, default |-> d, tuple |-> t, pos |-> p]
EListOp(ty, m, f, t, p) == [e |-> "ListOp", typ |-> ty, mac |-> m, field |-> f, target |-> t, pos |-> p]
EModule(as, ss, p) == [e |-> "Module", arg_set |-> as, statements |-> ss, pos |-> p]

SimpleTags == {"Empty", "Boolean", "Int", "Str", "Symbol", "Tuple", "List", "Selector"}

(* Statements *)
StLet(nm, v) == [st |-> "Let", name |-> nm, value |-> v]
StImport(p, nm) == [st |-> "Import", path |-> p, name |-> nm]
StExpression(x) == [st |-> "Expression", expr |-> x]
StAssert(t) == [st |-> "Assert", tok |-> t]
StOutput(t, x) == [st |-> "Output", typ |-> t, expr |-> x]

-----------------------------------------------------------------------------
(* The Builder *)

AssertCollector == [success |-> TRUE, summary |-> <<>>, failures |-> <<>>]

(* build_output is a map: a function whose domain is the set of bound names *)
EmptyMap == [x \in {} |-> VEmpty]
Insert(m, key, v) == [x \in DOMAIN m \cup {key} |-> IF x = key THEN v ELSE m[x]]

(* hasher stands for the RandomState of the Builder's HashMaps: it fixes    *)
(* the order in which build_output.drain() yields the bindings.  loading   *)
(* is the call stack above the Builder: the build_file calls in progress,  *)
(* each as the path and the cache it was called with.                      *)
new_with_env_and_scope(root, cache, log, hasher, scope, env) ==
    [file |-> root, validate_mode |-> FALSE, assert_collector |-> AssertCollector,
     env |-> env, strict |-> TRUE, assets |-> cache, built |-> log, hasher |-> hasher,
     build_output |-> scope, out_lock |-> None, stack |-> <<>>,
     is_module |-> FALSE, last |-> None, loading |-> <<>>]

(* env::vars() of the process, snapshotted by new_with_scope *)
ProcessEnv == << <<"HOME", <<"h">> >>, <<"USER", <<"u">> >> >>

new_with_scope(root, cache, log, hasher, scope) ==
    new_with_env_and_scope(root, cache, log, hasher, scope, VEnv(ProcessEnv))

new(root, cache, log, hasher) == new_with_scope(root, cache, log, hasher, EmptyMap)

(* The self stack: Option<Vec<Rc<Val>>> as the sequence of its entries     *)
(* (None and Some(empty) both hold no entry).                              *)
push_val(bb, v) == [bb EXCEPT !.stack = Append(@, v)]
pop_val(bb) == [bb EXCEPT !.stack = IF Len(@) = 0 THEN @ ELSE SubSeq(@, 1, Len(@) - 1)]
peek_val(bb) == IF Len(bb.stack) = 0 THEN None ELSE Some(bb.stack[1])

lookup_sym(bb, sym) ==
    IF sym = "env" THEN Some(bb.env)
    ELSE IF sym = "self" THEN peek_val(bb)
    ELSE IF sym \in DOMAIN bb.build_output THEN Some(bb.build_output[sym])
    ELSE None

find_in_fieldlist(target, fs) ==
    LET i == IndexOfName(fs, target, 1) IN IF i = 0 THEN None ELSE Some(fs[i][2])

(* check_reserved_word with two words missing from its match *)
check_reserved_word_m(name) ==
    name \in {"assert", "true", "false", "let", "as", "select",
              "macro", "module", "env", "map", "filter", "NULL", "out"}

check_reserved_word(name) ==
    name \in {"self", "assert", "true", "false", "let", "import", "as", "select",
              "macro", "module", "env", "map", "filter", "NULL", "out"}

(* A panic (Option::unwrap on None, integer division by zero) unwinds      *)
(* through every caller; it is carried as a result no handler catches.     *)
Panic == [ok |-> FALSE, kind |-> "panic", pos |-> 0]

(* A recursion without end exhausts the stack and the process is aborted;  *)
(* like a panic, no handler sees it.                                       *)
Overflow == [ok |-> FALSE, kind |-> "overflow", pos |-> 0]
Uncaught == {"panic", "overflow"}

(* [r |-> the Result, b |-> the Builder after the call] *)
R(r, bb) == [r |-> r, b |-> bb]

-----------------------------------------------------------------------------
(* Selector steps (lookup_in_env, lookup_in_tuple, lookup_in_list)         *)

RECURSIVE lookup_in_env(_, _, _, _)
lookup_in_env(search, fs, strict, i) ==
    IF i > Len(fs) THEN Err("NoSuchSymbol", search.pos)
    ELSE IF search.fragment = fs[i][1] THEN Ok(VStr(fs[i][2]))
    ELSE IF ~strict THEN Ok(VEmpty)
    ELSE lookup_in_env(search, fs, strict, i + 1)

lookup_in_tuple(next, fs) ==
    LET vv == find_in_fieldlist(next.fragment, fs)
    IN IF IsSome(vv) THEN Ok(Unwrap(vv)) ELSE Err("NoSuchSymbol", next.pos)

(* str::parse::<usize> on the fragments the model uses *)
ParseUsize(frag) ==
    CASE frag = "0" -> Some(0)
      [] frag = "1" -> Some(1)
      [] frag = "2" -> Some(2)
      [] frag = "3" -> Some(3)
      [] OTHER -> None

lookup_in_list(next, elems) ==
    LET idx == ParseUsize(next.fragment)
    IN IF ~IsSome(idx) THEN Err("ParseIntError", next.pos)
       ELSE IF Unwrap(idx) < Len(elems) THEN Ok(elems[Unwrap(idx) + 1])
       ELSE Err("NoSuchSymbol", next.pos)

(* The loop of lookup_selector: stack is the VecDeque, i the next tail item *)
RECURSIVE selector_loop(_, _, _, _)
selector_loop(bb, stack, tail, i) ==
    IF Len(stack) = 0 THEN Panic
    ELSE LET vref == stack[1]
             step == CASE vref.k = "Tuple" -> lookup_in_tuple(tail[i], vref.fields)
                       [] vref.k = "Env" -> lookup_in_env(tail[i], vref.vars, bb.strict, 1)
                       [] vref.k = "List" -> lookup_in_list(tail[i], vref.elems)
                       [] OTHER -> Err("TypeFail", tail[i].pos)
         IN IF i > Len(tail) THEN Ok(vref)
            ELSE IF ~step.ok THEN step
            ELSE selector_loop(bb, <<step.val>>, tail, i + 1)

-----------------------------------------------------------------------------
(* Arithmetic on reduced values.  The model's value universe has no Float  *)
(* and its Ints stay far from the i64 limits.                              *)

add_vals(pos, left, right) ==
    CASE left.k = "Int" ->
           IF right.k = "Int" THEN Ok(VInt(left.n + right.n)) ELSE Err("TypeFail", pos)
      [] left.k = "Str" ->
           IF right.k = "Str" THEN Ok(VStr(left.s \o right.s)) ELSE Err("TypeFail", pos)
      [] left.k = "List" ->
           IF right.k = "List" THEN Ok(VList(left.elems \o right.elems)) ELSE Err("TypeFail", pos)
      [] OTHER -> Err("Unsupported", pos)

subtract_vals(pos, left, right) ==
    CASE left.k = "Int" ->
           IF right.k = "Int" THEN Ok(VInt(left.n - right.n)) ELSE Err("TypeFail", pos)
      [] OTHER -> Err("Unsupported", pos)

multiply_vals(pos, left, right) ==
    CASE left.k = "Int" ->
           IF right.k = "Int" THEN Ok(VInt(left.n * right.n)) ELSE Err("TypeFail", pos)
      [] OTHER -> Err("Unsupported", pos)

(* i64 division truncates toward zero and panics on a zero divisor *)
TruncDiv(i, ii) ==
    LET q == (IF i < 0 THEN -i ELSE i) \div (IF ii < 0 THEN -ii ELSE ii)
    IN IF (i < 0) = (ii < 0) THEN q ELSE -q

divide_vals(pos, left, right) ==
    CASE left.k = "Int" ->
           IF right.k = "Int"
           THEN IF right.n = 0 THEN Panic ELSE Ok(VInt(TruncDiv(left.n, right.n)))
           ELSE Err("TypeFail", pos)
      [] OTHER -> Err("Unsupported", pos)

-----------------------------------------------------------------------------
(* MacroDef::validate_symbols (src/src/ast/mod.rs)                         *)

symbol_is_in_args(def, sym) == \E i \in 1..Len(def.argdefs) : def.argdefs[i] = sym

Exprs(fs) == [i \in 1..Len(fs) |-> fs[i][2]]

(* validate_value_symbols without the descent into tuples *)
value_pushes_m(val) ==
    CASE val.e = "Selector" -> <<val.sel.head>>
      [] val.e = "List" -> val.elems
      [] OTHER -> <<>>

(* what validate_value_symbols pushes, and the bad symbols it returns *)
value_pushes(val) ==
    CASE val.e = "Selector" -> <<val.sel.head>>
      [] val.e = "Tuple" -> Exprs(val.fields)
      [] val.e = "List" -> val.elems
      [] OTHER -> <<>>

validate_value_symbols(def, val) ==
    IF val.e = "Symbol" /\ ~symbol_is_in_args(def, val.sym) THEN {val.sym} ELSE {}

(* the while loop over the work stack of one field *)
RECURSIVE validate_loop(_, _, _)
validate_loop(def, stack, bad_symbols) ==
    IF Len(stack) = 0 THEN bad_symbols
    ELSE LET x == stack[Len(stack)]
             rest == SubSeq(stack, 1, Len(stack) - 1)
         IN CASE x.e \in {"Binary", "Compare"} ->
                   validate_loop(def, rest \o <<x.left, x.right>>, bad_symbols)
              [] x.e = "Grouped" -> validate_loop(def, Append(rest, x.expr), bad_symbols)
              [] x.e = "Format" -> validate_loop(def, rest \o x.args, bad_symbols)
              [] x.e = "Select" ->
                   validate_loop(def, rest \o <<x.default, x.val>> \o Exprs(x.tuple), bad_symbols)
              [] x.e = "Copy" -> validate_loop(def, rest \o Exprs(x.fields), bad_symbols)
              [] x.e = "Call" -> validate_loop(def, rest \o x.arglist, bad_symbols)
              [] x.e \in SimpleTags ->
                   validate_loop(def, rest \o value_pushes(x),
                                 bad_symbols \cup validate_value_symbols(def, x))
              [] x.e \in {"Macro", "Module", "ListOp"} -> validate_loop(def, rest, bad_symbols)

RECURSIVE validate_fields(_, _, _)
validate_fields(def, i, bad_symbols) ==
    IF i > Len(def.fields) THEN bad_symbols
    ELSE validate_fields(def, i + 1, validate_loop(def, <<def.fields[i][2]>>, bad_symbols))

(* the set of bad symbols; validate_symbols is Ok(()) iff it is empty *)
validate_symbols(def) == validate_fields(def, 1, {})

eval_macro_def(def) ==
    LET set == validate_symbols(def)
    IN IF set = {} THEN Ok(VMacro(def))
       ELSE [ok |-> FALSE, kind |-> "NoSuchSymbol", pos |-> def.pos, syms |-> set]

-----------------------------------------------------------------------------
(* Expression evaluation.  Every operator returns R(result, builder).      *)

(* Expression::pos: a Grouped expression has the position of its content *)
RECURSIVE ExprPos(_)
ExprPos(x) == IF x.e = "Grouped" THEN ExprPos(x.expr) ELSE x.pos

(* the sort of copy_from_base with its comparison turned around *)
SortByIndex_m(m) ==
    [i \in 1..Cardinality(DOMAIN m) |->
        LET key == CHOOSE kk \in DOMAIN m : m[kk].idx = Cardinality(DOMAIN m) - i
        IN <<key, m[key].val>>]

(* The HashMap of copy_from_base sorted by the index stored with each field *)
SortByIndex(m) ==
    [i \in 1..Cardinality(DOMAIN m) |->
        LET key == CHOOSE kk \in DOMAIN m : m[kk].idx = i - 1 IN <<key, m[key].val>>]

(* The first loop of copy_from_base: the base fields into the map *)
RECURSIVE base_fields(_, _, _, _)
base_fields(src_fields, i, m, count) ==
    IF i > Len(src_fields) THEN [dup |-> FALSE, m |-> m, count |-> count]
    ELSE IF src_fields[i][1] \in DOMAIN m THEN [dup |-> TRUE, m |-> m, count |-> count]
    ELSE base_fields(src_fields, i + 1,
                     Insert(m, src_fields[i][1], [idx |-> count, val |-> src_fields[i][2]]),
                     count + 1)

(* the binding loop taking the arguments from the back *)
RECURSIVE bind_args_m(_, _, _, _)
bind_args_m(argdefs, args, i, scope) ==
    IF i > Len(args) THEN scope
    ELSE IF argdefs[i] \in DOMAIN scope THEN bind_args_m(argdefs, args, i + 1, scope)
    ELSE bind_args_m(argdefs, args, i + 1, Insert(scope, argdefs[i], args[Len(args) + 1 - i]))

(* scope.entry(argdefs[i]).or_insert(arg) for every argument *)
RECURSIVE bind_args(_, _, _, _)
bind_args(argdefs, args, i, scope) ==
    IF i > Len(args) THEN scope
    ELSE IF argdefs[i] \in DOMAIN scope THEN bind_args(argdefs, args, i + 1, scope)
    ELSE bind_args(argdefs, args, i + 1, Insert(scope, argdefs[i], args[i]))

(* what a caller keeps of a child builder: the shared cache *)
Rejoin(bb, child) == [bb EXCEPT !.assets = child.assets, !.built = child.built]

RECURSIVE eval_expr(_, _)
RECURSIVE eval_exprs(_, _, _, _)
RECURSIVE eval_fieldlist(_, _, _, _)
RECURSIVE lookup_selector(_, _)
RECURSIVE copy_overrides(_, _, _, _, _)
RECURSIVE MacroDef_eval(_, _, _)
RECURSIVE copy_module(_, _, _)
RECURSIVE list_op_loop(_, _, _, _, _, _)
RECURSIVE select_branch(_, _, _, _)

(* list_to_val, and the argument loops of eval_call and eval_format *)
eval_exprs(bb, es, i, acc) ==
    IF i > Len(es) THEN R(Ok(acc), bb)
    ELSE LET x == eval_expr(bb, es[i])
         IN IF ~x.r.ok THEN x ELSE eval_exprs(x.b, es, i + 1, Append(acc, x.r.val))

(* tuple_to_val, and the field loop of MacroDef::eval *)
eval_fieldlist(bb, fs, i, acc) ==
    IF i > Len(fs) THEN R(Ok(acc), bb)
    ELSE LET x == eval_expr(bb, fs[i][2])
         IN IF ~x.r.ok THEN x
            ELSE eval_fieldlist(x.b, fs, i + 1, Append(acc, <<fs[i][1].fragment, x.r.val>>))

lookup_selector(bb, sl) ==
    LET x == eval_expr(bb, sl.head)
        first == x.r.val
        stack == IF first.k \in {"Tuple", "List", "Env"} THEN <<first>> ELSE <<>>
    IN IF ~x.r.ok THEN x
       ELSE IF IsSome(sl.tail)
            THEN IF Len(Unwrap(sl.tail)) = 0 THEN R(Ok(first), x.b)
                 ELSE R(selector_loop(x.b, stack, Unwrap(sl.tail), 1), x.b)
            ELSE R(Ok(first), x.b)

(* The override loop and the tail of copy_from_base *)
copy_overrides(bb, overrides, i, m, count) ==
    IF i > Len(overrides) THEN R(Ok(VTuple(SortByIndex(m))), pop_val(bb))
    ELSE LET x == eval_expr(bb, overrides[i][2])
             key == overrides[i][1]
             expr_result == x.r.val
             src_val == m[key.fragment]
         IN IF ~x.r.ok THEN x
            ELSE IF key.fragment \notin DOMAIN m
                 THEN copy_overrides(x.b, overrides, i + 1,
                          Insert(m, key.fragment, [idx |-> count, val |-> expr_result]),
                          count + 1)
            ELSE IF type_equal(src_val.val, expr_result)
                    \/ is_empty(src_val.val) \/ is_empty(expr_result)
                 THEN copy_overrides(x.b, overrides, i + 1,
                          Insert(m, key.fragment, [idx |-> src_val.idx, val |-> expr_result]),
                          count)
            ELSE R(Err("TypeFail", key.pos), pop_val(x.b))

(* The values of the model do not carry the positions of their field names *)
(* (PositionedItem's equality ignores them); the duplicate-field error,    *)
(* raised at the field's position, is given position 0.                    *)
copy_from_base(bb, src_fields, overrides) ==
    LET base == base_fields(src_fields, 1, EmptyMap, 0)
    IN IF base.dup THEN R(Err("TypeFail", 0), pop_val(bb))
       ELSE copy_overrides(bb, overrides, 1, base.m, base.count)

eval_copy(bb, def) ==
    LET x == lookup_selector(bb, def.selector)
        v == x.r.val
    IN IF ~x.r.ok THEN x
       ELSE IF v.k = "Tuple" THEN copy_from_base(push_val(x.b, v), v.fields, def.fields)
       ELSE IF v.k = "Module" THEN copy_module(x.b, v.def, def)
       ELSE R(Err("TypeFail", def.selector.pos), x.b)

(* MacroDef::eval with the child builder started on the caller's scope *)
MacroDef_eval_m(def, bb, args) ==
    IF Len(args) > Len(def.argdefs) THEN R(Err("BadArgLen", def.pos), bb)
    ELSE LET scope == bind_args(def.argdefs, args, 1, EmptyMap)
             merged == [n \in DOMAIN bb.build_output \cup DOMAIN scope |->
                           IF n \in DOMAIN scope THEN scope[n] ELSE bb.build_output[n]]
             child == new_with_env_and_scope(bb.file, bb.assets, bb.built, bb.hasher, merged, bb.env)
             x == eval_fieldlist(child, def.fields, 1, <<>>)
         IN R(x.r, Rejoin(bb, x.b))

(* MacroDef::eval, called with the caller's file, cache and env in bb *)
MacroDef_eval(def, bb, args) ==
    IF Len(args) > Len(def.argdefs) THEN R(Err("BadArgLen", def.pos), bb)
    ELSE LET scope == bind_args(def.argdefs, args, 1, EmptyMap)
             child == new_with_env_and_scope(bb.file, bb.assets, bb.built, bb.hasher, scope, bb.env)
             x == eval_fieldlist(child, def.fields, 1, <<>>)
         IN R(x.r, Rejoin(bb, x.b))

eval_call(bb, def) ==
    LET x == lookup_selector(bb, def.macroref)
        v == x.r.val
        argvals == eval_exprs(x.b, def.arglist, 1, <<>>)
        fields == MacroDef_eval(v.def, argvals.b, argvals.r.val)
    IN IF ~x.r.ok THEN x
       ELSE IF v.k # "Macro" THEN R(Err("TypeFail", def.pos), x.b)
       ELSE IF ~argvals.r.ok THEN argvals
       ELSE IF ~fields.r.ok THEN fields
       ELSE R(Ok(VTuple(fields.r.val)), fields.b)

(* the branch scan of eval_select: want is the field name to match *)
select_branch(bb, def, want, i) ==
    IF i > Len(def.tuple) THEN eval_expr(bb, def.default)
    ELSE IF def.tuple[i][1].fragment = want THEN eval_expr(bb, def.tuple[i][2])
    ELSE select_branch(bb, def, want, i + 1)

(* A Str discriminant is matched through its characters: the branch names  *)
(* of the model are one character long.                                    *)
eval_select(bb, def) ==
    LET x == eval_expr(bb, def.val)
        v == x.r.val
    IN IF ~x.r.ok THEN x
       ELSE IF v.k = "Str"
            THEN select_branch(x.b, def, IF Len(v.s) = 1 THEN v.s[1] ELSE "", 1)
       ELSE IF v.k = "Boolean"
            THEN select_branch(x.b, def, IF v.b THEN "true" ELSE "false", 1)
       ELSE R(Err("TypeFail", def.pos), x.b)

(* a filter that keeps the elements whose projection is truthy *)
filter_keeps_m(v) ==
    ~(v.k = "Empty" \/ (v.k = "Boolean" /\ ~v.b) \/ (v.k = "Int" /\ v.n = 0))

(* the match of the Filter arm: Empty and Boolean(false) are skipped *)
filter_keeps(v) == ~(v.k = "Empty" \/ (v.k = "Boolean" /\ ~v.b))

list_op_loop(bb, def, macdef, l, i, out) ==
    IF i > Len(l) THEN R(Ok(VList(out)), bb)
    ELSE LET item == l[i]
             fields == MacroDef_eval(macdef, bb, <<item>>)
             v == find_in_fieldlist(def.field, fields.r.val)
         IN IF ~fields.r.ok THEN fields
            ELSE IF ~IsSome(v) THEN list_op_loop(fields.b, def, macdef, l, i + 1, out)
            ELSE IF def.typ = "Map"
                 THEN list_op_loop(fields.b, def, macdef, l, i + 1, Append(out, Unwrap(v)))
            ELSE IF ~filter_keeps(Unwrap(v))
                 THEN list_op_loop(fields.b, def, macdef, l, i + 1, out)
            ELSE list_op_loop(fields.b, def, macdef, l, i + 1, Append(out, item))

eval_list_op(bb, def) ==
    LET maybe_list == eval_expr(bb, def.target)
        mac == lookup_selector(maybe_list.b, def.mac)
    IN IF ~maybe_list.r.ok THEN maybe_list
       ELSE IF maybe_list.r.val.k # "List"
            THEN R(Err("TypeFail", ExprPos(def.target)), maybe_list.b)
       ELSE IF ~mac.r.ok THEN mac
       ELSE IF mac.r.val.k # "Macro" THEN R(Err("TypeFail", def.pos), mac.b)
       ELSE list_op_loop(mac.b, def, mac.r.val.def, maybe_list.r.val.elems, 1, <<>>)

eval_binary(bb, def) ==
    LET left == eval_expr(bb, def.left)
        right == eval_expr(left.b, def.right)
    IN IF ~left.r.ok THEN left
       ELSE IF ~right.r.ok THEN right
       ELSE R(CASE def.kind = "Add" -> add_vals(def.pos, left.r.val, right.r.val)
                [] def.kind = "Sub" -> subtract_vals(def.pos, left.r.val, right.r.val)
                [] def.kind = "Mul" -> multiply_vals(def.pos, left.r.val, right.r.val)
                [] def.kind = "Div" -> divide_vals(def.pos, left.r.val, right.r.val),
              right.b)

(* Val::equal: structural equality of two reduced values *)
Val_equal(left, right) == left = right

do_deep_equal(pos, left, right) == Ok(VBoolean(Val_equal(left, right)))
do_not_deep_equal(pos, left, right) == Ok(VBoolean(~Val_equal(left, right)))

(* do_gt, do_lt, do_ltequal, do_gtequal: defined between two Ints *)
do_order(kind, pos, left, right) ==
    IF left.k = "Int" /\ right.k = "Int"
    THEN Ok(VBoolean(CASE kind = "GT" -> left.n > right.n
                       [] kind = "LT" -> left.n < right.n
                       [] kind = "GTEqual" -> left.n >= right.n
                       [] kind = "LTEqual" -> left.n <= right.n))
    ELSE Err("TypeFail", pos)

eval_compare(bb, def) ==
    LET left == eval_expr(bb, def.left)
        right == eval_expr(left.b, def.right)
    IN IF ~left.r.ok THEN left
       ELSE IF ~right.r.ok THEN right
       ELSE R(CASE def.kind = "Equal" -> do_deep_equal(def.pos, left.r.val, right.r.val)
                [] def.kind = "NotEqual" -> do_not_deep_equal(def.pos, left.r.val, right.r.val)
                [] OTHER -> do_order(def.kind, def.pos, left.r.val, right.r.val),
              right.b)

value_to_val(bb, v) ==
    CASE v.e = "Empty" -> R(Ok(VEmpty), bb)
      [] v.e = "Boolean" -> R(Ok(VBoolean(v.b)), bb)
      [] v.e = "Int" -> R(Ok(VInt(v.n)), bb)
      [] v.e = "Str" -> R(Ok(VStr(v.s)), bb)
      [] v.e = "Symbol" ->
           LET o == lookup_sym(bb, v.sym)
           IN R(IF IsSome(o) THEN Ok(Unwrap(o)) ELSE Err("NoSuchSymbol", v.pos), bb)
      [] v.e = "List" ->
           LET x == eval_exprs(bb, v.elems, 1, <<>>)
           IN IF x.r.ok THEN R(Ok(VList(x.r.val)), x.b) ELSE x
      [] v.e = "Tuple" ->
           LET x == eval_fieldlist(bb, v.fields, 1, <<>>)
           IN IF x.r.ok THEN R(Ok(VTuple(x.r.val)), x.b) ELSE x
      [] v.e = "Selector" -> lookup_selector(bb, v.sel)

(* eval_module_def: the Module value holds the definition with its        *)
(* default parameter tuple evaluated; the modules of the model import      *)
(* nothing, which leaves imports_to_absolute nothing to rewrite.           *)
eval_module_def(bb, def) ==
    LET x == eval_fieldlist(bb, def.arg_set, 1, <<>>)
    IN IF ~x.r.ok THEN x
       ELSE R(Ok(VModule([pos |-> def.pos, arg_set |-> def.arg_set,
                          arg_tuple |-> Some(VTuple(x.r.val)),
                          statements |-> def.statements])), x.b)

eval_expr(bb, expr) ==
    CASE expr.e \in SimpleTags -> value_to_val(bb, expr)
      [] expr.e = "Binary" -> eval_binary(bb, expr)
      [] expr.e = "Compare" -> eval_compare(bb, expr)
      [] expr.e = "Copy" -> eval_copy(bb, expr)
      [] expr.e = "Grouped" -> eval_expr(bb, expr.expr)
      [] expr.e = "Call" -> eval_call(bb, expr)
      [] expr.e = "Macro" -> R(eval_macro_def(expr), bb)
      [] expr.e = "Module" -> eval_module_def(bb, expr)
      [] expr.e = "Select" -> eval_select(bb, expr)
      [] expr.e = "ListOp" -> eval_list_op(bb, expr)

-----------------------------------------------------------------------------
(* The file system and the asset cache                                     *)

(* The source files, by canonical path, as the statements they parse to.   *)
(*   /a.ucg   let x = 1; let y = 2;                                        *)
(*   /b.ucg   import "/a.ucg" as a; let z = a.x;                           *)
(*   /c.ucg   let x = nosuch;                                              *)
(*   /s.ucg   import "/s.ucg" as z;                                        *)
(*   /p.ucg   import "/q.ucg" as z;                                        *)
(*   /q.ucg   let y = 2; import "/p.ucg" as z;                             *)
(*   /r.ucg   import "/a.ucg" as a; import "/r.ucg" as z;                  *)
Files ==
    [p \in {"/a.ucg", "/b.ucg", "/c.ucg", "/s.ucg", "/p.ucg", "/q.ucg", "/r.ucg"} |->
        CASE p = "/a.ucg" -> <<StLet(Tok("x", 1), EInt(1, 10)), StLet(Tok("y", 1), EInt(2, 10))>>
          [] p = "/b.ucg" -> <<StImport(Tok("/a.ucg", 1), Tok("a", 2)),
                               StLet(Tok("z", 1),
                                     ESel(ESym("a", 10), Some(<<Tok("x", 11)>>), 10))>>
          [] p = "/c.ucg" -> <<StLet(Tok("x", 1), ESym("nosuch", 10))>>
          [] p = "/s.ucg" -> <<StImport(Tok("/s.ucg", 1), Tok("z", 2))>>
          [] p = "/p.ucg" -> <<StImport(Tok("/q.ucg", 1), Tok("z", 2))>>
          [] p = "/q.ucg" -> <<StLet(Tok("y", 1), EInt(2, 10)),
                               StImport(Tok("/p.ucg", 1), Tok("z", 2))>>
          [] p = "/r.ucg" -> <<StImport(Tok("/a.ucg", 1), Tok("a", 2)),
                               StImport(Tok("/r.ucg", 1), Tok("z", 2))>>]

(* PathBuf::is_relative, PathBuf::push and canonicalize: a relative path   *)
(* is joined to the Builder's file, which resolves only when that file is  *)
(* the directory "/"; several spellings name one canonical path.           *)
is_relative(path) ==
    path \notin {"/a.ucg", "/b.ucg", "/c.ucg", "/s.ucg", "/p.ucg", "/q.ucg", "/r.ucg",
                 "/missing.ucg"}

canonicalize(file, path) ==
    IF is_relative(path)
    THEN IF file # "/" THEN None
         ELSE CASE path \in {"a.ucg", "./a.ucg"} -> Some("/a.ucg")
                [] path = "b.ucg" -> Some("/b.ucg")
                [] path = "c.ucg" -> Some("/c.ucg")
                [] OTHER -> None
    ELSE IF path \in DOMAIN Files THEN Some(path) ELSE None

(* assets::Cache: get and stash on a map from canonical path to Val *)
cache_get(cache, path) == IF path \in DOMAIN cache THEN Some(cache[path]) ELSE None
cache_stash(cache, path, asset) == Insert(cache, path, asset)

(* build_output.drain().collect(): the bindings in the order the HashMap   *)
(* yields them, here by name, ascending or descending with the hasher.     *)
AllNames == <<"a", "m", "mod", "t", "u", "x", "y", "z">>

RECURSIVE drain(_, _, _, _)
drain(m, hasher, i, acc) ==
    IF i > Len(AllNames) THEN acc
    ELSE IF AllNames[i] \notin DOMAIN m THEN drain(m, hasher, i + 1, acc)
    ELSE drain(m, hasher, i + 1,
               IF hasher = "asc" THEN Append(acc, <<AllNames[i], m[AllNames[i]]>>)
               ELSE <<(<<AllNames[i], m[AllNames[i]]>>)>> \o acc)

get_outputs_as_val(bb) == R(Ok(VTuple(drain(bb.build_output, bb.hasher, 1, <<>>))),
                            [bb EXCEPT !.build_output = EmptyMap])

(* parse() of an assert fragment: the statements, or None on a parse error *)
ParseFragment(frag) ==
    CASE frag = "true;" -> Some(<<StExpression(EBool(TRUE, 1))>>)
      [] frag = "false;" -> Some(<<StExpression(EBool(FALSE, 1))>>)
      [] frag = "1;" -> Some(<<StExpression(EInt(1, 1))>>)
      [] frag = "let x = 1;" -> Some(<<StLet(Tok("x", 1), EInt(1, 10))>>)
      [] frag = "nosuch;" -> Some(<<StExpression(ESym("nosuch", 1))>>)
      [] frag = "1 / 0;" -> Some(<<StExpression(EBinary("Div", EInt(1, 1), EInt(0, 5), 3))>>)
      [] frag = "1 == 1;" ->
           Some(<<StExpression(ECompare("Equal", EInt(1, 1), EInt(1, 6), 3))>>)
      [] frag = "1 == 2;" ->
           Some(<<StExpression(ECompare("Equal", EInt(1, 1), EInt(2, 6), 3))>>)
      [] frag = "t{a = 2};" ->
           Some(<<StExpression(ECopy(SelectorDef(ESym("t", 1), None, 1),
                                     <<(<<Tok("a", 3), EInt(2, 7)>>)>>, 1))>>)
      [] frag = "t{a = nosuch};" ->
           Some(<<StExpression(ECopy(SelectorDef(ESym("t", 1), None, 1),
                                     <<(<<Tok("a", 3), ESym("nosuch", 7)>>)>>, 1))>>)
      [] OTHER -> None

-----------------------------------------------------------------------------
(* Statements *)

RECURSIVE build_stmt(_, _)
RECURSIVE eval_stmts(_, _, _, _)
RECURSIVE build_import(_, _)

(* the statement loop of eval_input: out is the last statement's value *)
eval_stmts(bb, stmts, i, out) ==
    IF i > Len(stmts) THEN R(Ok(IF IsSome(out) THEN Unwrap(out) ELSE VEmpty), bb)
    ELSE LET x == build_stmt(bb, stmts[i])
         IN IF ~x.r.ok THEN x ELSE eval_stmts(x.b, stmts, i + 1, Some(x.r.val))

(* build_file: read the file, eval_string it, keep the last value; an      *)
(* error comes back wrapped in a SimpleError, which has no ErrorType.      *)
build_file(bb, name) ==
    LET x == eval_stmts(bb, Files[name], 1, None)
        done == [x.b EXCEPT !.built = Append(@, [path |-> name, ok |-> x.r.ok])]
    IN IF x.r.ok THEN R(Ok(VEmpty), [done EXCEPT !.last = Some(x.r.val)])
       ELSE R(IF x.r.kind \in Uncaught THEN x.r ELSE Err("SimpleError", 0), done)

build_import(bb, def) ==
    LET sym == def.name
        normalized == canonicalize(bb.file, def.path.fragment)
        maybe_asset == cache_get(bb.assets, Unwrap(normalized))
        call == <<Unwrap(normalized), bb.assets>>
        reentered == \E i \in 1..Len(bb.loading) : bb.loading[i] = call
        child == build_file([new(Unwrap(normalized), bb.assets, bb.built, bb.hasher)
                                EXCEPT !.loading = Append(bb.loading, call)],
                            Unwrap(normalized))
        result == IF IsSome(maybe_asset) THEN Unwrap(maybe_asset)
                  ELSE get_outputs_as_val(child.b).r.val
        b1 == IF IsSome(maybe_asset) THEN bb ELSE Rejoin(bb, child.b)
    IN IF check_reserved_word(sym.fragment) THEN R(Err("ReservedWordError", sym.pos), bb)
       ELSE IF ~IsSome(normalized) THEN R(Err("IoError", 0), bb)
       ELSE IF ~IsSome(maybe_asset) /\ reentered THEN R(Overflow, bb)
       ELSE IF ~IsSome(maybe_asset) /\ ~child.r.ok THEN R(child.r, b1)
       ELSE IF sym.fragment \in DOMAIN b1.build_output
            THEN R(Err("DuplicateBinding", def.path.pos), b1)
       ELSE R(Ok(result),
              [b1 EXCEPT !.build_output = Insert(@, sym.fragment, result),
                         !.assets = cache_stash(@, Unwrap(normalized), result)])

(* build_let inserting into build_output without looking at the entry *)
build_let_m(bb, def) ==
    LET name == def.name
        bind(x) ==
            IF ~x.r.ok THEN x
            ELSE IF check_reserved_word(name.fragment)
                 THEN R(Err("ReservedWordError", name.pos), x.b)
            ELSE R(Ok(x.r.val),
                   [x.b EXCEPT !.build_output = Insert(@, name.fragment, x.r.val)])
    IN bind(eval_expr(bb, def.value))

build_let(bb, def) ==
    LET name == def.name
        bind(x) ==
            IF ~x.r.ok THEN x
            ELSE IF check_reserved_word(name.fragment)
                 THEN R(Err("ReservedWordError", name.pos), x.b)
            ELSE IF name.fragment \in DOMAIN x.b.build_output
                 THEN R(Err("DuplicateBinding", name.pos), x.b)
            ELSE R(Ok(x.r.val),
                   [x.b EXCEPT !.build_output = Insert(@, name.fragment, x.r.val)])
    IN bind(eval_expr(bb, def.value))

(* one line of the assertion report *)
Msg(kind, tok) == [kind |-> kind, frag |-> tok.fragment, pos |-> tok.pos]

Record(bb, msg, failed) ==
    [bb EXCEPT !.assert_collector =
        [success |-> IF failed THEN FALSE ELSE @.success,
         summary |-> Append(@.summary, msg),
         failures |-> IF failed THEN Append(@.failures, msg) ELSE @.failures]]

(* build_assert without the test of validate_mode *)
build_assert_always(bb, tok) ==
    LET stmts == ParseFragment(tok.fragment)
        x == eval_stmts(bb, Unwrap(stmts), 1, None)
        ok == x.r.val
    IN IF ~IsSome(stmts) THEN R(Ok(VEmpty), Record(bb, Msg("NOT OK", tok), TRUE))
       ELSE IF ~x.r.ok
            THEN IF x.r.kind \in Uncaught THEN x
                 ELSE R(Ok(VEmpty), Record(x.b, Msg("NOT OK", tok), TRUE))
       ELSE IF ok.k = "Boolean"
            THEN IF ok.b THEN R(Ok(ok), Record(x.b, Msg("OK", tok), FALSE))
                 ELSE R(Ok(ok), Record(x.b, Msg("NOT OK", tok), TRUE))
       ELSE R(Ok(ok), Record(x.b, Msg("TYPE FAIL", tok), TRUE))

(* build_assert recording a type failure without clearing success *)
build_assert_lenient(bb, tok) ==
    LET stmts == ParseFragment(tok.fragment)
        x == eval_stmts(bb, Unwrap(stmts), 1, None)
        ok == x.r.val
    IN IF ~bb.validate_mode THEN R(Ok(VEmpty), bb)
       ELSE IF ~IsSome(stmts) THEN R(Ok(VEmpty), Record(bb, Msg("NOT OK", tok), TRUE))
       ELSE IF ~x.r.ok
            THEN IF x.r.kind \in Uncaught THEN x
                 ELSE R(Ok(VEmpty), Record(x.b, Msg("NOT OK", tok), TRUE))
       ELSE IF ok.k = "Boolean"
            THEN IF ok.b THEN R(Ok(ok), Record(x.b, Msg("OK", tok), FALSE))
                 ELSE R(Ok(ok), Record(x.b, Msg("NOT OK", tok), TRUE))
       ELSE R(Ok(ok), Record(x.b, Msg("TYPE FAIL", tok), FALSE))

build_assert(bb, tok) ==
    LET stmts == ParseFragment(tok.fragment)
        x == eval_stmts(bb, Unwrap(stmts), 1, None)
        ok == x.r.val
    IN IF ~bb.validate_mode THEN R(Ok(VEmpty), bb)
       ELSE IF ~IsSome(stmts) THEN R(Ok(VEmpty), Record(bb, Msg("NOT OK", tok), TRUE))
       ELSE IF ~x.r.ok
            THEN IF x.r.kind \in Uncaught THEN x
                 ELSE R(Ok(VEmpty), Record(x.b, Msg("NOT OK", tok), TRUE))
       ELSE IF ok.k = "Boolean"
            THEN IF ok.b THEN R(Ok(ok), Record(x.b, Msg("OK", tok), FALSE))
                 ELSE R(Ok(ok), Record(x.b, Msg("NOT OK", tok), TRUE))
       ELSE R(Ok(ok), Record(x.b, Msg("TYPE FAIL", tok), TRUE))

(* build_stmt whose Output arm does not look at the output lock *)
build_stmt_m(bb, s) ==
    CASE s.st = "Assert" -> build_assert(bb, s.tok)
      [] s.st = "Let" -> build_let(bb, s)
      [] s.st = "Import" -> build_import(bb, s)
      [] s.st = "Expression" -> eval_expr(bb, s.expr)
      [] s.st = "Output" ->
           LET lock(x) ==
                   IF ~x.r.ok THEN x
                   ELSE R(Ok(x.r.val),
                          [x.b EXCEPT !.out_lock =
                                          Some([typ |-> s.typ.fragment, val |-> x.r.val])])
           IN lock(eval_expr(bb, s.expr))

build_stmt(bb, s) ==
    CASE s.st = "Assert" -> build_assert(bb, s.tok)
      [] s.st = "Let" -> build_let(bb, s)
      [] s.st = "Import" -> build_import(bb, s)
      [] s.st = "Expression" -> eval_expr(bb, s.expr)
      [] s.st = "Output" ->
           IF ~IsSome(bb.out_lock)
           THEN LET lock(x) ==
                        IF ~x.r.ok THEN x
                        ELSE R(Ok(x.r.val),
                               [x.b EXCEPT !.out_lock =
                                               Some([typ |-> s.typ.fragment, val |-> x.r.val])])
                IN lock(eval_expr(bb, s.expr))
           ELSE R(Err("DuplicateBinding", s.typ.pos), bb)

(* the Module arm of eval_copy running the module's statements in the      *)
(* caller instead of a child                                               *)
copy_module_m(bb, mod_def, def) ==
    LET maybe_tpl == Unwrap(mod_def.arg_tuple)
        module(mod_args) ==
            IF ~mod_args.r.ok THEN mod_args
            ELSE eval_stmts([mod_args.b EXCEPT !.build_output = Insert(@, "mod", mod_args.r.val)],
                            mod_def.statements, 1, None)
    IN module(copy_from_base(bb, maybe_tpl.fields, def.fields))

(* The Module arm of eval_copy.  The child b is built on the caller's file *)
(* and cache and gets the default parameter tuple pushed on its self       *)
(* stack; copy_from_base is called on the caller, not on the child.        *)
copy_module(bb, mod_def, def) ==
    LET maybe_tpl == Unwrap(mod_def.arg_tuple)
        module(mod_args) ==
            LET child == push_val([new(bb.file, mod_args.b.assets, mod_args.b.built, bb.hasher)
                                      EXCEPT !.is_module = TRUE,
                                             !.loading = bb.loading,
                                             !.build_output = Insert(@, "mod", mod_args.r.val)],
                                  maybe_tpl)
                outputs(built) ==
                    IF ~built.r.ok THEN R(built.r, Rejoin(mod_args.b, built.b))
                    ELSE R(get_outputs_as_val(built.b).r, Rejoin(mod_args.b, built.b))
            IN IF ~mod_args.r.ok THEN mod_args
               ELSE outputs(eval_stmts(child, mod_def.statements, 1, None))
    IN IF maybe_tpl.k = "Tuple"
       THEN module(copy_from_base(bb, maybe_tpl.fields, def.fields))
       ELSE R(Err("TypeFail", def.selector.pos), bb)

-----------------------------------------------------------------------------
(* Spec: the driver constructs a Builder over the shared cache and hands   *)
(* it statements one by one (Builder::build); build stops at the first     *)
(* statement that returns an error.                                        *)

(* the scopes the driver seeds a Builder with (new / new_with_scope) *)
SeedScopes == {EmptyMap, [n \in {"x"} |-> VInt(7)]}
Hashers == {"asc", "desc"}

LetNames == {"x", "self"}
LetExprs == {EInt(1, 10), EInt(2, 10), ESym("nosuch", 10)}
ImportPaths == {"a.ucg", "./a.ucg", "/b.ucg", "c.ucg"}
ImportNames == {"a", "x", "import"}
OutTypes == {"json", "yaml"}
OutExprs == {EInt(1, 10), ESym("nosuch", 10)}
StmtExprs == {EInt(1, 10), ESym("nosuch", 10)}
Fragments == {"true;", "let x = 1;", "("}

Init ==
    /\ \E h \in Hashers, sc \in SeedScopes, vm \in BOOLEAN :
          b = [new_with_scope("/", EmptyMap, <<>>, h, sc) EXCEPT !.validate_mode = vm]
    /\ stmt = None
    /\ ret = Ok(VEmpty)
    /\ nstmts = 0
    /\ nbuilders = 1
    /\ pending = <<>>

(* the loop of Builder::build going on after a statement returned an error *)
BuildStmt_on(s) ==
    /\ nstmts < MaxStmts
    /\ LET returns(x) == b' = x.b /\ ret' = x.r
       IN returns(build_stmt(b, s))
    /\ stmt' = Some(s)
    /\ nstmts' = nstmts + 1
    /\ UNCHANGED nbuilders

(* one build_stmt call: the body of the loop of Builder::build, which ends *)
(* at the first statement that returns an error                            *)
BuildStmt(s) ==
    /\ ret.ok
    /\ nstmts < MaxStmts
    /\ LET returns(x) == b' = x.b /\ ret' = x.r
       IN returns(build_stmt(b, s))
    /\ stmt' = Some(s)
    /\ nstmts' = nstmts + 1
    /\ UNCHANGED nbuilders

(* a statement handed to the Builder one at a time (eval_string) *)
Step(s) == BuildStmt(s) /\ UNCHANGED pending

(* the next statement of the file being built *)
BuildNext ==
    /\ pending # <<>>
    /\ BuildStmt(Head(pending))
    /\ pending' = Tail(pending)

LetStmts == {StLet(Tok(nm, 1), x) : nm \in LetNames, x \in LetExprs}
ImportStmts == {StImport(Tok(p, 1), Tok(nm, 2)) : p \in ImportPaths, nm \in ImportNames}
OutputStmts == {StOutput(Tok(t, 1), x) : t \in OutTypes, x \in OutExprs}
ExpressionStmts == {StExpression(x) : x \in StmtExprs}
AssertStmts == {StAssert(Tok(f, 1)) : f \in Fragments}

BuildLet == \E s \in LetStmts : Step(s)
BuildImport == \E s \in ImportStmts : Step(s)
BuildOutput == \E s \in OutputStmts : Step(s)
BuildExpression == \E s \in ExpressionStmts : Step(s)
BuildAssert == \E s \in AssertStmts : Step(s)

(* The driver drops the Builder and constructs the next one over the same  *)
(* asset cache (Builder::new_with_scope, then enable_validate_mode or not) *)
NewBuilder ==
    /\ nbuilders < MaxBuilders
    /\ \E h \in Hashers, sc \in SeedScopes, vm \in BOOLEAN :
          b' = [new_with_scope("/", b.assets, b.built, h, sc) EXCEPT !.validate_mode = vm]
    /\ stmt' = None
    /\ ret' = Ok(VEmpty)
    /\ nstmts' = 0
    /\ nbuilders' = nbuilders + 1
    /\ UNCHANGED pending

Next == BuildLet \/ BuildImport \/ BuildOutput \/ BuildExpression \/ BuildAssert \/ NewBuilder

Spec == Init /\ [][Next]_vars

-----------------------------------------------------------------------------
(* Properties of Spec *)

(* the reserved words as the language definition lists them *)
ReservedWords ==
    {"self", "assert", "true", "false", "let", "import", "as", "select",
     "macro", "module", "env", "map", "filter", "NULL", "out"}

(* the step just taken was a build_stmt call on a statement of kind st *)
Stepped(st) == nstmts' = nstmts + 1 /\ stmt'[1].st = st
Last(st) == Len(stmt) = 1 /\ stmt[1].st = st

(* C1: an Output statement met while the output lock is unset is accepted  *)
(* when its expression evaluates, and sets the lock to (type, value); an   *)
(* Output statement met while the lock is set fails with DuplicateBinding  *)
(* at the type token's position and leaves the lock as it was.             *)
C1_SingleOutput ==
    [][Stepped("Output") =>
         IF IsSome(b.out_lock)
         THEN /\ ret' = Err("DuplicateBinding", stmt'[1].typ.pos)
              /\ b'.out_lock = b.out_lock
         ELSE /\ ret' = eval_expr(b, stmt'[1].expr).r
              /\ b'.out_lock = IF ret'.ok
                               THEN Some([typ |-> stmt'[1].typ.fragment, val |-> ret'.val])
                               ELSE None]_vars

C1_Witness ==
    /\ Last("Output")
    /\ ~ret.ok /\ ret.kind = "DuplicateBinding"
    /\ IsSome(b.out_lock)

(* C2 as claimed: a Let whose name is already bound fails with             *)
(* DuplicateBinding at the name's position and leaves the binding alone.   *)
C2_LetOnBoundName ==
    [][(Stepped("Let") /\ stmt'[1].name.fragment \in DOMAIN b.build_output) =>
         /\ ret' = Err("DuplicateBinding", stmt'[1].name.pos)
         /\ b'.build_output = b.build_output]_vars

(* C2 amended: a Let whose name is already bound leaves the scope as it    *)
(* was; it fails with DuplicateBinding at the name's position when its     *)
(* expression evaluates and the name is not a reserved word (otherwise     *)
(* with the expression's error or ReservedWordError).  No statement        *)
(* changes or removes a binding of the Builder it runs in.                 *)
C2_BindingsAreFinal ==
    [][(nstmts' = nstmts + 1) =>
         /\ \A n \in DOMAIN b.build_output :
               n \in DOMAIN b'.build_output /\ b'.build_output[n] = b.build_output[n]
         /\ (stmt'[1].st = "Let" /\ stmt'[1].name.fragment \in DOMAIN b.build_output) =>
               /\ ~ret'.ok
               /\ b'.build_output = b.build_output
               /\ (eval_expr(b, stmt'[1].value).r.ok
                     /\ stmt'[1].name.fragment \notin ReservedWords)
                  => ret' = Err("DuplicateBinding", stmt'[1].name.pos)]_vars

C2_Witness ==
    /\ Last("Let")
    /\ stmt[1].name.fragment \in DOMAIN b.build_output
    /\ ret = Err("DuplicateBinding", stmt[1].name.pos)
    /\ b.build_output[stmt[1].name.fragment] # eval_expr(b, stmt[1].value).r.val

(* C3 as claimed: a Let or Import whose name is a reserved word fails with *)
(* ReservedWordError and adds no binding.                                  *)
C3_ReservedNameFails ==
    [][((Stepped("Let") \/ Stepped("Import")) /\ stmt'[1].name.fragment \in ReservedWords) =>
         /\ ret' = Err("ReservedWordError", stmt'[1].name.pos)
         /\ b'.build_output = b.build_output]_vars

(* C3 amended: an Import whose name is a reserved word fails with          *)
(* ReservedWordError; a Let whose name is a reserved word fails, with      *)
(* ReservedWordError when its expression evaluates and with the            *)
(* expression's error otherwise; neither adds a binding, and after every   *)
(* statement no reserved word is a key of the scope.                       *)
C3_NoReservedBinding ==
    [][(nstmts' = nstmts + 1) =>
         /\ (stmt'[1].st = "Import" /\ stmt'[1].name.fragment \in ReservedWords) =>
               /\ ret' = Err("ReservedWordError", stmt'[1].name.pos)
               /\ b'.build_output = b.build_output
         /\ (stmt'[1].st = "Let" /\ stmt'[1].name.fragment \in ReservedWords) =>
               /\ ~ret'.ok
               /\ b'.build_output = b.build_output
               /\ ret' = IF eval_expr(b, stmt'[1].value).r.ok
                         THEN Err("ReservedWordError", stmt'[1].name.pos)
                         ELSE eval_expr(b, stmt'[1].value).r
         /\ DOMAIN b'.build_output \cap ReservedWords = {}]_vars

C3_Witness ==
    /\ Last("Let")
    /\ stmt[1].name.fragment \in ReservedWords
    /\ ret = Err("ReservedWordError", stmt[1].name.pos)
    /\ DOMAIN b.build_output # {}

(* C6: over the imports of all Builders sharing the asset cache, a file    *)
(* that has been evaluated successfully is not evaluated again.            *)
C6_EvaluatedOnce ==
    \A i, j \in 1..Len(b.built) :
        (i < j /\ b.built[i].path = b.built[j].path) => ~b.built[i].ok

-----------------------------------------------------------------------------
(* SpecCopy: a Builder whose scope binds t to a tuple evaluates Copy       *)
(* expressions t{ ... } as expression statements.                          *)

(* sequences over S of length at most n *)
RECURSIVE SeqsUpTo(_, _)
SeqsUpTo(S, n) ==
    IF n = 0 THEN {<<>>}
    ELSE LET shorter == SeqsUpTo(S, n - 1)
         IN shorter \cup {Append(q, x) : q \in shorter, x \in S}

BaseValues == {VInt(1), VInt(2), VStr(<<"s">>), VEmpty}
BaseFields == {"a", "b"} \X BaseValues
(* Tuple values of up to two fields; a tuple literal may repeat a name *)
BaseTuples == {<<>>} \cup {<<p>> : p \in BaseFields} \cup {<<p, q>> : p, q \in BaseFields}

OverrideExprs == {EInt(3, 20), EInt(4, 20), EStr(<<"t">>, 20), EEmpty(20), ESym("nosuch", 20)}
OverrideFields == {"a", "b", "c"} \X OverrideExprs
OverrideLists == SeqsUpTo(OverrideFields, MaxOverrides)

(* the FieldList of the overrides: override i's name token is at position i *)
RECURSIVE FieldList(_, _)
FieldList(ovs, i) ==
    IF i > Len(ovs) THEN <<>>
    ELSE << <<Tok(ovs[i][1], i), ovs[i][2]>> >> \o FieldList(ovs, i + 1)

(* the selector t *)
BaseSelector == SelectorDef(ESym("t", 10), None, 10)

(* the statements t{ overrides }; *)
CopyStmts == {StExpression(ECopy(BaseSelector, FieldList(ovs, 1), 10)) : ovs \in OverrideLists}

InitCopy ==
    /\ \E t \in BaseTuples :
          b = new_with_scope("/", EmptyMap, <<>>, "asc", [n \in {"t"} |-> VTuple(t)])
    /\ stmt = None
    /\ ret = Ok(VEmpty)
    /\ nstmts = 0
    /\ nbuilders = 1
    /\ \E s \in CopyStmts : pending = <<s>>

CopyTuple == BuildNext

NextCopy == CopyTuple

SpecCopy == InitCopy /\ [][NextCopy]_vars

(* the base tuple and the overrides of the Copy the last statement was *)
LastCopy == Last("Expression") /\ stmt[1].expr.e = "Copy"
Base == b.build_output["t"].fields
Overrides == stmt[1].expr.fields

(* the value of a literal expression *)
LitVal(x) ==
    CASE x.e = "Int" -> VInt(x.n)
      [] x.e = "Str" -> VStr(x.s)
      [] x.e = "Empty" -> VEmpty
      [] x.e = "Boolean" -> VBoolean(x.b)

IsLiteral(x) == x.e \in {"Int", "Str", "Empty"}
DistinctNames(fs) == \A i, j \in 1..Len(fs) : fs[i][1] = fs[j][1] => i = j

(* override i overwrites a base field with a value of another kind, neither Empty *)
KindClash(i) ==
    /\ Overrides[i][1].fragment \in Names(Base)
    /\ LET was == Base[IndexOfName(Base, Overrides[i][1].fragment, 1)][2]
           now == LitVal(Overrides[i][2])
       IN was.k # now.k /\ was.k # "Empty" /\ now.k # "Empty"

(* C4: when an override of a Copy overwrites a field of the base tuple     *)
(* with a value of another kind than the base's value, neither being       *)
(* Empty, the Copy fails with TypeFail at that override's position (at the *)
(* first such override), also when the field is overridden more than once. *)
C4_CopyTypePreserved ==
    (/\ LastCopy
     /\ DistinctNames(Base)
     /\ \A i \in 1..Len(Overrides) : IsLiteral(Overrides[i][2])
     /\ \E i \in 1..Len(Overrides) : KindClash(i))
    => LET first == CHOOSE i \in 1..Len(Overrides) :
                        KindClash(i) /\ \A j \in 1..(i - 1) : ~KindClash(j)
       IN ret = Err("TypeFail", Overrides[first][1].pos)

(* what the Copy should yield: the base fields in base order, each with    *)
(* the value of the last override of its name, then the names the          *)
(* overrides add, in the order of their first override, likewise.          *)
LastOverride(name) ==
    LET i == CHOOSE k \in 1..Len(Overrides) :
                 /\ Overrides[k][1].fragment = name
                 /\ \A j \in (k + 1)..Len(Overrides) : Overrides[j][1].fragment # name
    IN LitVal(Overrides[i][2])

Overridden(name) == \E k \in 1..Len(Overrides) : Overrides[k][1].fragment = name

AddedAt(i) ==
    /\ Overrides[i][1].fragment \notin Names(Base)
    /\ \A j \in 1..(i - 1) : Overrides[j][1].fragment # Overrides[i][1].fragment

ExpectedCopy ==
    [i \in 1..Len(Base) |->
        <<Base[i][1], IF Overridden(Base[i][1]) THEN LastOverride(Base[i][1]) ELSE Base[i][2]>>]
    \o [i \in 1..Cardinality({k \in 1..Len(Overrides) : AddedAt(k)}) |->
        LET at == CHOOSE k \in 1..Len(Overrides) :
                      /\ AddedAt(k)
                      /\ Cardinality({j \in 1..k : AddedAt(j)}) = i
        IN <<Overrides[at][1].fragment, LastOverride(Overrides[at][1].fragment)>>]

(* C5: a successful tuple Copy yields the base's fields in the base's      *)
(* order, each with its overriding value if overridden, followed by the    *)
(* fields new in the overrides in override declaration order.              *)
C5_CopyFieldOrder == (LastCopy /\ ret.ok) => ret.val = VTuple(ExpectedCopy)

(* { a = 1, b = 2 } copied with { b = 3, c = 4 } *)
C5_Witness ==
    /\ LastCopy
    /\ Base = << <<"a", VInt(1)>>, <<"b", VInt(2)>> >>
    /\ Len(Overrides) = 2
    /\ Overrides[1] = <<Tok("b", 1), EInt(3, 20)>>
    /\ Overrides[2] = <<Tok("c", 2), EInt(4, 20)>>
    /\ ret = Ok(VTuple(<< <<"a", VInt(1)>>, <<"b", VInt(3)>>, <<"c", VInt(4)>> >>))

-----------------------------------------------------------------------------
(* SpecMacro: a Builder whose scope binds m to a macro (and t, x, y for    *)
(* the caller) evaluates macro literals, calls of m from three call sites  *)
(* and map/filter through m.                                               *)

Fld(name, i, x) == <<Tok(name, i), x>>
Sel(name, p) == SelectorDef(ESym(name, p), None, p)

ArgdefNames == {"x", "y", "env", "self"}
ArgdefLists ==
    {<<>>} \cup {<<p>> : p \in ArgdefNames} \cup {<<p, q>> : p, q \in ArgdefNames}

(* bodies whose fields are literals and bare symbols *)
SimpleBodies ==
    { <<Fld("v", 1, EInt(1, 21))>>,
      <<Fld("v", 1, ESym("x", 21))>>,
      <<Fld("v", 1, ESym("x", 21)), Fld("q", 2, ESym("y", 22))>>,
      <<Fld("q", 1, ESym("y", 21)), Fld("v", 2, ESym("x", 22))>>,
      <<Fld("v", 1, ESym("env", 21))>>,
      <<Fld("v", 1, ESym("self", 21))>> }

(* bodies that name the caller's t, and self, where the validator does     *)
(* not look: v = t{}, v = self{}                                           *)
ProbeBodies ==
    { <<Fld("v", 1, ECopy(Sel("t", 21), <<>>, 21))>>,
      <<Fld("v", 1, ECopy(Sel("self", 21), <<>>, 21))>> }

CallableLits ==
    {EMacro(ad, fs, 40) : ad \in ArgdefLists, fs \in SimpleBodies}
    \cup {EMacro(ad, fs, 40) : ad \in {<<>>, <<"x">>}, fs \in ProbeBodies}

(* one expression per construct of the AST, with the symbol s in it *)
RichExprs(s) ==
    { ESym(s, 21),
      ESel(ESym(s, 21), Some(<<Tok("a", 22)>>), 21),
      ETuple(<<Fld("a", 1, ESym(s, 21))>>, 21),
      EList(<<EInt(1, 21), ESym(s, 21)>>, 21),
      EBinary("Add", EInt(1, 21), ESym(s, 21), 21),
      EBinary("Add", ESym(s, 21), EInt(1, 21), 21),
      EGrouped(ESym(s, 21)),
      ECopy(Sel("x", 21), <<Fld("a", 1, ESym(s, 21))>>, 21),
      ECopy(Sel(s, 21), <<Fld("a", 1, EInt(1, 21))>>, 21),
      EFormat(<<"@">>, <<ESym(s, 21)>>, 21),
      ECall(Sel("x", 21), <<ESym(s, 21)>>, 21),
      ECall(Sel(s, 21), <<EInt(1, 21)>>, 21),
      ESelect(ESym(s, 21), EInt(1, 21), <<Fld("a", 1, EInt(1, 21))>>, 21),
      ESelect(ESym("x", 21), ESym(s, 21), <<Fld("a", 1, EInt(1, 21))>>, 21),
      ESelect(ESym("x", 21), EInt(1, 21), <<Fld("a", 1, ESym(s, 21))>>, 21),
      EMacro(<<>>, <<Fld("q", 1, ESym(s, 21))>>, 21),
      EModule(<<Fld("a", 1, ESym(s, 21))>>, <<>>, 21),
      EListOp("Map", Sel(s, 21), "v", EList(<<ESym(s, 21)>>, 21), 21),
      EGrouped(EBinary("Add",
                       EList(<<ETuple(<<Fld("a", 1, ESym(s, 21))>>, 21)>>, 21),
                       EInt(1, 21), 21)) }

(* macro(x) => { v = <expr> } and macro(x) => { v = 1, q = <expr> } *)
RichLits ==
    {EMacro(<<"x">>, <<Fld("v", 1, x)>>, 40) : x \in RichExprs("x") \cup RichExprs("z")}
    \cup {EMacro(<<"x">>, <<Fld("v", 1, EInt(1, 21)), Fld("q", 2, x)>>, 40) :
             x \in RichExprs("x") \cup RichExprs("z")}
    \cup {EMacro(<<"x">>, <<Fld("v", 1, ESym("z", 21)), Fld("q", 2, ESym("w", 22))>>, 40)}

MacroLits == CallableLits \cup RichLits

(* the Macro values a scope can hold: the literals eval_macro_def accepts *)
Macros == {eval_macro_def(l).val : l \in {c \in CallableLits : eval_macro_def(c).ok}}

BaseTuple == VTuple(<< <<"a", VInt(1)>> >>)
CallerScopes ==
    { [n \in {"t"} |-> BaseTuple],
      [n \in {"t", "x", "y"} |-> IF n = "t" THEN BaseTuple ELSE VInt(9)] }

ArgExprs == {EInt(1, 30), EInt(2, 30)}
ArgLists == SeqsUpTo(ArgExprs, MaxArgs)
MSel == Sel("m", 30)

(* m(args); *)
CallStmts == {StExpression(ECall(MSel, as, 30)) : as \in ArgLists}
(* t{ c = m(args) }; *)
CopyCallStmts ==
    {StExpression(ECopy(BaseSelector, <<Fld("c", 1, ECall(MSel, as, 30))>>, 10)) : as \in ArgLists}
(* out json m(args); *)
OutCallStmts == {StOutput(Tok("json", 1), ECall(MSel, as, 30)) : as \in {<<>>, <<EInt(1, 30)>>}}
MacroLitStmts == {StExpression(l) : l \in MacroLits}

ListElems == {EInt(0, 50), EInt(1, 50), EInt(2, 50), EEmpty(50), EBool(FALSE, 50)}
ListLits == {EList(es, 50) : es \in SeqsUpTo(ListElems, MaxListLen)}
(* map m.f [ ... ]; filter m.f [ ... ]; *)
ListOpStmts ==
    {StExpression(EListOp(ty, MSel, f, l, 60)) :
        ty \in {"Map", "Filter"}, f \in {"v", "q"}, l \in ListLits}

(* the files: one statement, or an Output and then a call *)
MacroFiles ==
    {<<s>> : s \in CallStmts \cup CopyCallStmts \cup OutCallStmts \cup MacroLitStmts \cup ListOpStmts}
    \cup {<<o, s>> : o \in OutCallStmts, s \in CallStmts \cup CopyCallStmts}

InitMacro ==
    /\ \E scope \in CallerScopes, mac \in Macros :
          b = new_with_scope("/", EmptyMap, <<>>, "asc", Insert(scope, "m", mac))
    /\ stmt = None
    /\ ret = Ok(VEmpty)
    /\ nstmts = 0
    /\ nbuilders = 1
    /\ pending \in MacroFiles

IsCall(x) == x.e = "Call"
IsCopyCall(x) == x.e = "Copy"
NextIs(st) == pending # <<>> /\ Head(pending).st = st

EvalMacroLit == NextIs("Expression") /\ Head(pending).expr.e = "Macro" /\ BuildNext
CallMacro == NextIs("Expression") /\ IsCall(Head(pending).expr) /\ BuildNext
CallInCopy == NextIs("Expression") /\ IsCopyCall(Head(pending).expr) /\ BuildNext
OutputCall == NextIs("Output") /\ BuildNext
ListOp == NextIs("Expression") /\ Head(pending).expr.e = "ListOp" /\ BuildNext

NextMacro == EvalMacroLit \/ CallMacro \/ CallInCopy \/ OutputCall \/ ListOp

SpecMacro == InitMacro /\ [][NextMacro]_vars

(* the macro bound to m, and the call the last statement made *)
MacroOf == b.build_output["m"].def
LastCall == Last("Expression") /\ IsCall(stmt[1].expr)
CallOf(s) == IF IsCall(s.expr) THEN s.expr ELSE s.expr.fields[1][2]
ArgValsOf(call) == [i \in 1..Len(call.arglist) |-> LitVal(call.arglist[i])]

SimpleBody(def) == \A i \in 1..Len(def.fields) : def.fields[i][2].e \in {"Int", "Symbol"}
(* sym is one of the first k argdefs; the first position it has *)
BoundBy(def, k, sym) == \E j \in 1..k : def.argdefs[j] = sym
FirstOf(def, sym) ==
    CHOOSE j \in 1..Len(def.argdefs) :
        def.argdefs[j] = sym /\ \A l \in 1..(j - 1) : def.argdefs[l] # sym

Pristine(env) == new_with_env_and_scope("/", EmptyMap, <<>>, "asc", EmptyMap, env)

HasCall(s) == s.st = "Output" \/ (s.st = "Expression" /\ s.expr.e \in {"Call", "Copy"})

(* the names a body of the model refers to: its bare symbols and the       *)
(* selectors of its Copy expressions                                       *)
NamesUsed(def) ==
    {def.fields[i][2].sym : i \in {j \in 1..Len(def.fields) : def.fields[j][2].e = "Symbol"}}
    \cup {def.fields[i][2].selector.head.sym :
             i \in {j \in 1..Len(def.fields) : def.fields[j][2].e = "Copy"}}

(* C8: a call of m from any caller (whatever its scope, self stack and     *)
(* output lock) yields what the call yields from a Builder with an empty   *)
(* scope, no self stack and no output lock; a name the macro body uses     *)
(* that its arguments do not bind is unbound in the body (NoSuchSymbol),   *)
(* also when the caller's scope or self stack binds it.                    *)
C8_CallerIndependent ==
    [][(/\ nstmts' = nstmts + 1
        /\ "m" \in DOMAIN b.build_output
        /\ b.build_output["m"].k = "Macro"
        /\ HasCall(stmt'[1])
        /\ ~(stmt'[1].st = "Output" /\ IsSome(b.out_lock))) =>
          LET s == stmt'[1]
              call == CallOf(s)
              def == b.build_output["m"].def
              k == Len(call.arglist)
              ref == MacroDef_eval(def, Pristine(b.env), ArgValsOf(call)).r
              res == IF ref.ok THEN Ok(VTuple(ref.val)) ELSE ref
              hidden == {n \in NamesUsed(def) :
                            n # "env" /\ (n = "self" \/ ~BoundBy(def, k, n))}
          IN /\ IF IsCall(s.expr) THEN ret' = res
                ELSE ret' = IF ref.ok
                            THEN Ok(VTuple(Append(b.build_output["t"].fields,
                                                  <<"c", VTuple(ref.val)>>)))
                            ELSE ref
             /\ (k <= Len(def.argdefs) /\ hidden # {})
                => ~ret'.ok /\ ret'.kind = "NoSuchSymbol"]_vars

(* after out json m(1): t{ c = m() } with x bound in the caller's scope,   *)
(* the base tuple on the self stack and the output lock set                *)
C8_Witness ==
    /\ Last("Expression") /\ IsCopyCall(stmt[1].expr)
    /\ IsSome(b.out_lock)
    /\ "x" \in DOMAIN b.build_output
    /\ Len(b.stack) > 0
    /\ MacroOf.argdefs = <<"x">>
    /\ MacroOf.fields[1][2] = ESym("x", 21)
    /\ Len(stmt[1].expr.fields[1][2].arglist) = 0
    /\ ret = Err("NoSuchSymbol", 21)

(* the bare symbols of an expression where the closure check looks *)
RECURSIVE Reached(_)
Reached(x) ==
    CASE x.e = "Symbol" -> {x.sym}
      [] x.e = "Selector" -> Reached(x.sel.head)
      [] x.e = "Tuple" -> UNION {Reached(x.fields[i][2]) : i \in 1..Len(x.fields)}
      [] x.e = "List" -> UNION {Reached(x.elems[i]) : i \in 1..Len(x.elems)}
      [] x.e = "Binary" -> Reached(x.left) \cup Reached(x.right)
      [] x.e = "Grouped" -> Reached(x.expr)
      [] x.e = "Copy" -> UNION {Reached(x.fields[i][2]) : i \in 1..Len(x.fields)}
      [] x.e = "Format" -> UNION {Reached(x.args[i]) : i \in 1..Len(x.args)}
      [] x.e = "Call" -> UNION {Reached(x.arglist[i]) : i \in 1..Len(x.arglist)}
      [] x.e = "Select" ->
           Reached(x.val) \cup Reached(x.default)
           \cup UNION {Reached(x.tuple[i][2]) : i \in 1..Len(x.tuple)}
      [] OTHER -> {}

LastMacroLit == Last("Expression") /\ stmt[1].expr.e = "Macro"

(* C9: a macro literal evaluates to the Macro value of the literal exactly *)
(* when every bare symbol reached in its fields (through selector heads,   *)
(* tuples, lists, binary operands, grouped expressions, copy overrides,    *)
(* format args, call args and select discriminant, default and branches,   *)
(* not through nested macro, module and list-op expressions) is an argdef; *)
(* otherwise it fails with NoSuchSymbol at the literal's position, the     *)
(* error naming exactly the other symbols reached.                         *)
C9_MacroClosure ==
    LastMacroLit =>
       LET lit == stmt[1].expr
           bad == UNION {Reached(lit.fields[i][2]) : i \in 1..Len(lit.fields)}
                  \ {lit.argdefs[i] : i \in 1..Len(lit.argdefs)}
       IN IF bad = {} THEN ret = Ok(VMacro(lit))
          ELSE ret = [ok |-> FALSE, kind |-> "NoSuchSymbol", pos |-> lit.pos, syms |-> bad]

(* macro(x) => { v = { a = z } } *)
C9_Witness ==
    /\ LastMacroLit
    /\ stmt[1].expr.fields[1][2] = ETuple(<<Fld("a", 1, ESym("z", 21))>>, 21)
    /\ ~ret.ok
    /\ ret.kind = "NoSuchSymbol"
    /\ ret.syms = {"z"}

LastFilter ==
    Last("Expression") /\ stmt[1].expr.e = "ListOp" /\ stmt[1].expr.typ = "Filter"

(* C10: a successful filter yields, in the original order, exactly the     *)
(* elements for which the named field of the macro's result exists and is  *)
(* neither Empty nor Boolean(false); Int(0) is kept.                       *)
C10_FilterKeeps ==
    (LastFilter /\ ret.ok) =>
       LET def == MacroOf
           f == stmt[1].expr.field
           items == [i \in 1..Len(stmt[1].expr.target.elems) |->
                        LitVal(stmt[1].expr.target.elems[i])]
           Has == \E i \in 1..Len(def.fields) : def.fields[i][1].fragment = f
           at == CHOOSE i \in 1..Len(def.fields) :
                     /\ def.fields[i][1].fragment = f
                     /\ \A j \in 1..(i - 1) : def.fields[j][1].fragment # f
           Proj(item) == IF def.fields[at][2].e = "Symbol"
                         THEN IF def.fields[at][2].sym = "env" THEN b.env ELSE item
                         ELSE LitVal(def.fields[at][2])
           Keeps(item) == /\ Has
                          /\ Proj(item).k # "Empty"
                          /\ ~(Proj(item).k = "Boolean" /\ ~Proj(item).b)
       IN ret.val = VList(SelectSeq(items, Keeps))

(* filter m.v [0, 1, 2] with m = macro(x) => { v = x } *)
C10_Witness ==
    /\ LastFilter
    /\ MacroOf = EMacro(<<"x">>, <<Fld("v", 1, ESym("x", 21))>>, 40)
    /\ stmt[1].expr.field = "v"
    /\ stmt[1].expr.target = EList(<<EInt(0, 50), EInt(1, 50), EInt(2, 50)>>, 50)
    /\ ret = Ok(VList(<<VInt(0), VInt(1), VInt(2)>>))

-----------------------------------------------------------------------------
(* Claims on map (SpecMacro) *)

LastMap ==
    Last("Expression") /\ stmt[1].expr.e = "ListOp" /\ stmt[1].expr.typ = "Map"

(* C11: a successful map over a list of n elements yields a list of        *)
(* exactly n elements, the i-th being the named field of the tuple the     *)
(* macro returns for the i-th element as its sole argument.                *)
C11_MapProjectsAll ==
    (LastMap /\ ret.ok) =>
       LET f == stmt[1].expr.field
           items == [i \in 1..Len(stmt[1].expr.target.elems) |->
                        LitVal(stmt[1].expr.target.elems[i])]
           Called(item) == MacroDef_eval(MacroOf, b, <<item>>).r
       IN /\ ret.val.k = "List"
          /\ Len(ret.val.elems) = Len(items)
          /\ \A i \in 1..Len(items) :
                /\ Called(items[i]).ok
                /\ find_in_fieldlist(f, Called(items[i]).val) = Some(ret.val.elems[i])

-----------------------------------------------------------------------------
(* The parser (src/src/parse.rs).  The source text is a sequence of        *)
(* one-character strings; a Span is the text still to be read together     *)
(* with the column of its first character.  The parser specifications      *)
(* keep the text in pending and the parse result in ret; the Builder in b  *)
(* is the one a driver has just constructed and takes no step.             *)

MaxInputLen == 3

Digits == <<"0", "1", "2", "3", "4", "5", "6", "7", "8", "9">>
IsDigit(c) == \E i \in 1..Len(Digits) : Digits[i] = c

Span(text, col) == [text |-> text, col |-> col]
Advance(sp, n) == Span(SubSeq(sp.text, n + 1, Len(sp.text)), sp.col + n)

(* the length of the run of digits at the head of a text *)
RECURSIVE DigitRun(_)
DigitRun(text) ==
    IF Len(text) = 0 \/ ~IsDigit(Head(text)) THEN 0 ELSE 1 + DigitRun(Tail(text))

(* tokenizer: digittok takes the digits at the head of the span, dottok    *)
(* the "." at its head; neither skips white space                          *)
digittok(sp) ==
    LET n == DigitRun(sp.text)
    IN IF n = 0 THEN None
       ELSE Some([tok |-> Tok(SubSeq(sp.text, 1, n), sp.col), rest |-> Advance(sp, n)])

dottok(sp) ==
    IF Len(sp.text) > 0 /\ Head(sp.text) = "."
    THEN Some([tok |-> Tok(<<".">>, sp.col), rest |-> Advance(sp, 1)])
    ELSE None

(* i64::from_str on a run of digits.  The value is kept as its decimal     *)
(* digits without leading zeros; the run is in range when it is no longer  *)
(* and no greater than the digits of i64::MAX.                             *)
I64Max == <<"9", "2", "2", "3", "3", "7", "2", "0", "3", "6",
            "8", "5", "4", "7", "7", "5", "8", "0", "7">>

RECURSIVE StripZeros(_)
StripZeros(ds) ==
    IF Len(ds) > 1 /\ Head(ds) = "0" THEN StripZeros(Tail(ds)) ELSE ds

DigitVal(c) == CHOOSE i \in 0..9 : Digits[i + 1] = c

(* ds <= es for two runs of the same length *)
RECURSIVE DigitsLeq(_, _)
DigitsLeq(ds, es) ==
    IF Len(ds) = 0 THEN TRUE
    ELSE IF Head(ds) = Head(es) THEN DigitsLeq(Tail(ds), Tail(es))
    ELSE DigitVal(Head(ds)) < DigitVal(Head(es))

I64FromStr(ds) ==
    LET canon == StripZeros(ds)
    IN IF Len(ds) = 0 THEN None
       ELSE IF Len(canon) < Len(I64Max) THEN Some(canon)
       ELSE IF Len(canon) = Len(I64Max) /\ DigitsLeq(canon, I64Max) THEN Some(canon)
       ELSE None

(* f64::from_str on <digits> "." <digits>: the decimal it denotes, as the  *)
(* digits of its integer part and of its fraction without trailing zeros;  *)
(* "." alone is not a number.  The texts with a dot are short enough for   *)
(* f64 to tell their values apart.                                         *)
RECURSIVE StripTrailingZeros(_)
StripTrailingZeros(ds) ==
    IF Len(ds) > 0 /\ ds[Len(ds)] = "0"
    THEN StripTrailingZeros(SubSeq(ds, 1, Len(ds) - 1)) ELSE ds

F64FromStr(pref, suf) ==
    IF Len(pref) = 0 /\ Len(suf) = 0 THEN None
    ELSE Some([int |-> IF Len(pref) = 0 THEN <<"0">> ELSE StripZeros(pref),
               frac |-> StripTrailingZeros(suf)])

NInt(ds, p) == [v |-> "Int", digits |-> ds, pos |-> p]
NFloat(f, p) == [v |-> "Float", int |-> f.int, frac |-> f.frac, pos |-> p]

(* triple_to_number taking every triple without a suffix for an Int *)
triple_to_number_m(v) ==
    LET pref == IF IsSome(v[1]) THEN Unwrap(v[1]).fragment ELSE <<>>
        pref_pos == IF IsSome(v[1]) THEN Unwrap(v[1]).pos
                    ELSE IF IsSome(v[2]) THEN Unwrap(v[2]).pos ELSE 0
        suf == IF IsSome(v[3]) THEN Unwrap(v[3]).fragment ELSE <<>>
        i == I64FromStr(pref)
        f == F64FromStr(pref, suf)
    IN IF IsSome(v[1]) /\ ~IsSome(v[3])
       THEN IF IsSome(i) THEN Ok(NInt(Unwrap(i), pref_pos)) ELSE Err("ParseIntError", 0)
       ELSE IF IsSome(f) THEN Ok(NFloat(Unwrap(f), pref_pos)) ELSE Err("ParseFloatError", 0)

triple_to_number(v) ==
    LET pref == IF IsSome(v[1]) THEN Unwrap(v[1]).fragment ELSE <<>>
        has_dot == IsSome(v[2])
        pref_pos == IF IsSome(v[1]) THEN Unwrap(v[1]).pos
                    ELSE IF has_dot THEN Unwrap(v[2]).pos ELSE 0
        suf == IF IsSome(v[3]) THEN Unwrap(v[3]).fragment ELSE <<>>
        i == I64FromStr(pref)
        f == F64FromStr(pref, suf)
    IN IF IsSome(v[1]) /\ ~has_dot /\ ~IsSome(v[3])
       THEN IF IsSome(i) THEN Ok(NInt(Unwrap(i), pref_pos)) ELSE Err("ParseIntError", 0)
       ELSE IF IsSome(f) THEN Ok(NFloat(Unwrap(f), pref_pos)) ELSE Err("ParseFloatError", 0)

(* number: the four alternatives in their order, then triple_to_number;    *)
(* the result and the span left after it                                   *)
number(sp) ==
    LET p == digittok(sp)
        pd == IF IsSome(p) THEN dottok(Unwrap(p).rest) ELSE None
        pds == IF IsSome(pd) THEN digittok(Unwrap(pd).rest) ELSE None
        d == dottok(sp)
        ds == IF IsSome(d) THEN digittok(Unwrap(d).rest) ELSE None
        NoDigit(s) == ~IsSome(digittok(s))
        Done(t, rest) == LET r == triple_to_number(t)
                         IN [r |-> r, rest |-> IF r.ok THEN rest ELSE sp]
    IN IF IsSome(pds) /\ NoDigit(Unwrap(pds).rest)
       THEN Done(<<Some(Unwrap(p).tok), Some(Unwrap(pd).tok), Some(Unwrap(pds).tok)>>,
                 Unwrap(pds).rest)
       ELSE IF IsSome(pd) /\ NoDigit(Unwrap(pd).rest)
       THEN Done(<<Some(Unwrap(p).tok), Some(Unwrap(pd).tok), None>>, Unwrap(pd).rest)
       ELSE IF IsSome(ds) /\ NoDigit(Unwrap(ds).rest)
       THEN Done(<<None, Some(Unwrap(d).tok), Some(Unwrap(ds).tok)>>, Unwrap(ds).rest)
       ELSE IF IsSome(p) /\ NoDigit(Unwrap(p).rest)
       THEN Done(<<Some(Unwrap(p).tok), None, None>>, Unwrap(p).rest)
       ELSE [r |-> Err("Alt", 0), rest |-> sp]

-----------------------------------------------------------------------------
(* SpecNumber: number applied at the head of a source text *)

NumberChars == {"0", "1", "9", ".", " "}
(* i64::MAX, i64::MAX + 1, and i64::MAX written with a leading zero *)
LongTexts ==
    { I64Max,
      SubSeq(I64Max, 1, Len(I64Max) - 1) \o <<"8">>,
      <<"0">> \o I64Max }
NumberTexts == SeqsUpTo(NumberChars, MaxInputLen) \cup LongTexts

InitNumber ==
    /\ b = new("/", EmptyMap, <<>>, "asc")
    /\ stmt = None
    /\ ret = Ok(VEmpty)
    /\ nstmts = 0
    /\ nbuilders = 1
    /\ pending \in NumberTexts

ParseNumber ==
    /\ nstmts = 0
    /\ LET parsed(x) == ret' = x.r /\ pending' = x.rest.text
       IN parsed(number(Span(pending, 1)))
    /\ stmt' = Some(pending)
    /\ nstmts' = 1
    /\ UNCHANGED <<b, nbuilders>>

NextNumber == ParseNumber

SpecNumber == InitNumber /\ [][NextNumber]_vars

(* the text number was applied to, and its shape: the digits at its head,  *)
(* the dot after them, the digits after the dot                            *)
Text == stmt[1]
Parsed == nstmts = 1
IntRun == SubSeq(Text, 1, DigitRun(Text))
HasDot == Len(Text) > Len(IntRun) /\ Text[Len(IntRun) + 1] = "."
FracRun ==
    IF HasDot
    THEN LET after == SubSeq(Text, Len(IntRun) + 2, Len(Text))
         IN SubSeq(after, 1, DigitRun(after))
    ELSE <<>>
FitsI64 ==
    \/ Len(StripZeros(IntRun)) < Len(I64Max)
    \/ Len(StripZeros(IntRun)) = Len(I64Max) /\ DigitsLeq(StripZeros(IntRun), I64Max)
IsFloatOf(val, int, frac) ==
    /\ val.v = "Float"
    /\ val.int = (IF Len(int) = 0 THEN <<"0">> ELSE StripZeros(int))
    /\ val.frac = StripTrailingZeros(frac)
DotForms ==
    /\ (HasDot /\ (Len(IntRun) > 0 \/ Len(FracRun) > 0)) =>
          (ret.ok /\ IsFloatOf(ret.val, IntRun, FracRun))
    /\ (HasDot /\ Len(IntRun) = 0 /\ Len(FracRun) = 0) => ~ret.ok

(* C12 as claimed: every run of digits with no dot parses to Int, every    *)
(* form with a dot to Float with the value written, and a lone dot is an   *)
(* error.                                                                  *)
C12_NumberForms ==
    Parsed =>
       /\ (Len(IntRun) > 0 /\ ~HasDot) =>
             (ret.ok /\ ret.val.v = "Int" /\ ret.val.digits = StripZeros(IntRun))
       /\ DotForms

(* C12: a run of digits with no dot parses to the Int it denotes when that *)
(* is at most i64::MAX and is an error otherwise; every form with a dot    *)
(* parses to Float with the value written; a lone dot is an error.         *)
C12_NumberFormsInRange ==
    Parsed =>
       /\ (Len(IntRun) > 0 /\ ~HasDot) =>
             IF FitsI64
             THEN ret.ok /\ ret.val.v = "Int" /\ ret.val.digits = StripZeros(IntRun)
             ELSE ~ret.ok
       /\ DotForms

(* 9223372036854775808 is refused *)
C12_Witness ==
    /\ Parsed
    /\ Text = SubSeq(I64Max, 1, Len(I64Max) - 1) \o <<"8">>
    /\ ~ret.ok

(* ".1" is the Float 0.1 *)
C12_WitnessFloat ==
    /\ Parsed
    /\ Text = <<".", "1">>
    /\ ret.ok /\ ret.val.v = "Float" /\ ret.val.int = <<"0">> /\ ret.val.frac = <<"1">>

-----------------------------------------------------------------------------
(* SpecDivide: a Builder whose scope binds x and y to Ints evaluates one   *)
(* division statement.  An Int literal is never negative; the negative     *)
(* operands come from the scope.                                           *)

ScopeInts == {-7, -2, 0, 3}
DivOperands == {EInt(0, 10), EInt(1, 10), EInt(2, 10), EInt(7, 10), ESym("x", 10), ESym("y", 10)}
DivStmts == {StExpression(EBinary("Div", l, r, 11)) : l, r \in DivOperands}

InitDivide ==
    /\ \E i, ii \in ScopeInts :
          b = new_with_scope("/", EmptyMap, <<>>, "asc",
                             [n \in {"x", "y"} |-> IF n = "x" THEN VInt(i) ELSE VInt(ii)])
    /\ stmt = None
    /\ ret = Ok(VEmpty)
    /\ nstmts = 0
    /\ nbuilders = 1
    /\ \E s \in DivStmts : pending = <<s>>

Divide == BuildNext

NextDivide == Divide

SpecDivide == InitDivide /\ [][NextDivide]_vars

LastDivide == Last("Expression") /\ stmt[1].expr.e = "Binary" /\ stmt[1].expr.kind = "Div"
OperandInt(x) == IF x.e = "Symbol" THEN b.build_output[x.sym].n ELSE x.n
Dividend == OperandInt(stmt[1].expr.left)
Divisor == OperandInt(stmt[1].expr.right)
Abs(i) == IF i < 0 THEN -i ELSE i

(* q is i / ii truncated toward zero *)
IsTruncatedQuotient(q, i, ii) ==
    /\ Abs(i - q * ii) < Abs(ii)
    /\ (i - q * ii = 0 \/ (i - q * ii < 0) = (i < 0))

(* C13: dividing an Int by Int(0) ends the build with an error value; for  *)
(* any other Int divisor the result is the quotient truncated toward zero. *)
C13_DivisionDefined ==
    LastDivide =>
       IF Divisor = 0
       THEN ~ret.ok /\ ret.kind # "panic"
       ELSE ret.ok /\ ret.val.k = "Int" /\ IsTruncatedQuotient(ret.val.n, Dividend, Divisor)

(* the quotient of a division by a non-zero Int *)
QuotientTruncates ==
    (LastDivide /\ Divisor # 0) =>
       (ret.ok /\ ret.val.k = "Int" /\ IsTruncatedQuotient(ret.val.n, Dividend, Divisor))

DividedNegative == LastDivide /\ Dividend = -7 /\ Divisor = 2 /\ ret = Ok(VInt(-3))

-----------------------------------------------------------------------------
(* SpecAssert: a Builder, in validate mode or not, builds a file of assert *)
(* statements and let statements.                                          *)

AssertFragments ==
    {"true;", "false;", "1;", "nosuch;", "(", "let x = 1;", "1 / 0;", "1 == 1;", "1 == 2;"}
AssertFileStmts ==
    {StAssert(Tok(f, 1)) : f \in AssertFragments} \cup {StLet(Tok("y", 1), EInt(2, 10))}
AssertFiles == SeqsUpTo(AssertFileStmts, MaxStmts) \ {<<>>}

InitAssert ==
    /\ \E vm \in BOOLEAN :
          b = [new("/", EmptyMap, <<>>, "asc") EXCEPT !.validate_mode = vm]
    /\ stmt = None
    /\ ret = Ok(VEmpty)
    /\ nstmts = 0
    /\ nbuilders = 1
    /\ pending \in AssertFiles

EvalAssert == NextIs("Assert") /\ BuildNext
LetBetween == NextIs("Let") /\ BuildNext

NextAssert == EvalAssert \/ LetBetween

SpecAssert == InitAssert /\ [][NextAssert]_vars

Collector == b.assert_collector

(* C14: outside validate mode an Assert statement returns Empty and leaves *)
(* the whole Builder as it was (collector, scope, output lock, cache),     *)
(* whatever its fragment is.                                               *)
C14_AssertIsNoOp ==
    [][(Stepped("Assert") /\ ~b.validate_mode) => (ret' = Ok(VEmpty) /\ b' = b)]_vars

(* assert |let x = 1;| outside validate mode binds nothing *)
C14_Witness ==
    /\ Last("Assert")
    /\ ~b.validate_mode
    /\ stmt[1].tok.fragment = "let x = 1;"
    /\ ret = Ok(VEmpty)
    /\ b.build_output = EmptyMap
    /\ Collector = AssertCollector

(* what evaluating the fragment of an assert yields in the Builder bb *)
Yield(bb, tok) ==
    LET stmts == ParseFragment(tok.fragment)
    IN IF IsSome(stmts) THEN eval_stmts(bb, Unwrap(stmts), 1, None).r
       ELSE Err("ParseError", tok.pos)
Passed(bb, tok) == Yield(bb, tok).ok /\ Yield(bb, tok).val = VBoolean(TRUE)

(* C15: in validate mode success starts true and after every assert that   *)
(* returns is the AND of its old value and "the fragment yielded           *)
(* Boolean(true)"; the assert appends one line to summary, and the same    *)
(* line to failures exactly when the result is not OK; other statements    *)
(* leave the collector alone.                                              *)
C15_SuccessIsConjunction ==
    /\ Collector = AssertCollector
    /\ [][/\ (Stepped("Assert") /\ b.validate_mode /\ ret'.ok) =>
              LET was == Collector
                  now == b'.assert_collector
                  line == now.summary[Len(now.summary)]
              IN /\ now.success = (was.success /\ Passed(b, stmt'[1].tok))
                 /\ Len(now.summary) = Len(was.summary) + 1
                 /\ SubSeq(now.summary, 1, Len(was.summary)) = was.summary
                 /\ line.frag = stmt'[1].tok.fragment
                 /\ (line.kind = "OK") = Passed(b, stmt'[1].tok)
                 /\ now.failures = IF Passed(b, stmt'[1].tok) THEN was.failures
                                   ELSE Append(was.failures, line)
          /\ ~Stepped("Assert") => b'.assert_collector = Collector]_vars

(* assert |false;| then assert |true;|: success stays false *)
C15_Witness ==
    /\ b.validate_mode
    /\ Len(Collector.summary) = 2
    /\ Collector.summary[1].kind = "NOT OK"
    /\ Collector.summary[2].kind = "OK"
    /\ ~Collector.success
    /\ Len(Collector.failures) = 1

(* C16: the collector has a counter that starts at 0 and is incremented by *)
(* every assert evaluated in validate mode; after assert |1 == 1|;         *)
(* assert |1 == 2|; it is 2, success is false and failures holds the line  *)
(* of the second assert.                                                   *)
C16_CounterCounts ==
    (b.validate_mode /\ ret.ok /\ pending = <<>>
       /\ stmt = Some(StAssert(Tok("1 == 2;", 1))) /\ Len(Collector.summary) = 2
       /\ Collector.summary[1].frag = "1 == 1;") =>
       /\ "counter" \in DOMAIN Collector
       /\ Collector.counter = 2
       /\ ~Collector.success
       /\ Collector.failures = <<Msg("NOT OK", Tok("1 == 2;", 1))>>

(* what the collector does hold after assert |1 == 1|; assert |1 == 2|; *)
TwoAssertsRecorded ==
    /\ b.validate_mode /\ pending = <<>>
    /\ stmt = Some(StAssert(Tok("1 == 2;", 1)))
    /\ Collector = [success |-> FALSE,
                    summary |-> <<Msg("OK", Tok("1 == 1;", 1)), Msg("NOT OK", Tok("1 == 2;", 1))>>,
                    failures |-> <<Msg("NOT OK", Tok("1 == 2;", 1))>>]

(* C17: in validate mode an Assert statement returns Ok whatever its       *)
(* fragment does, so the build goes on to the next statement.              *)
C17_AssertNeverAborts ==
    [][(Stepped("Assert") /\ b.validate_mode) => ret'.ok]_vars

(* every assert whose fragment does not panic returns Ok *)
AssertWithoutPanicReturns ==
    [][(Stepped("Assert") /\ b.validate_mode /\ stmt'[1].tok.fragment # "1 / 0;") => ret'.ok]_vars

LetAfterFailedAssert ==
    /\ b.validate_mode /\ Last("Let") /\ ret.ok
    /\ ~Collector.success
    /\ "y" \in DOMAIN b.build_output

-----------------------------------------------------------------------------
(* The precedence parser (src/src/parse/precedence.rs).  A parser over a   *)
(* slice of Elements takes the list l and the index i of the next element  *)
(* and returns Complete with the index after what it consumed and a value, *)
(* Fail, or Abort.  either! returns its first alternative that does not    *)
(* Fail; do_each! runs its parsers in sequence and stops at the first that *)
(* is not Complete.                                                        *)

MaxOperands == 3

ElExpr(x) == [el |-> "Expr", expr |-> x]
ElOp(kd) == [el |-> "Op", op |-> kd]

Complete(i, v) == [res |-> "Complete", i |-> i, val |-> v]
Fail == [res |-> "Fail"]
Abort == [res |-> "Abort"]

either2(first, second) == IF first.res = "Fail" THEN second ELSE first
either3(first, second, third) == either2(first, either2(second, third))
either4(first, second, third, fourth) == either2(first, either3(second, third, fourth))

parse_expression(l, i) ==
    IF i > Len(l) THEN Abort
    ELSE IF l[i].el = "Expr" THEN Complete(i + 1, l[i].expr)
    ELSE Fail

(* the four operator parsers differ in the operators they accept *)
parse_operator(l, i, accepted) ==
    IF i > Len(l) THEN Fail
    ELSE IF l[i].el = "Op" /\ l[i].op \in accepted THEN Complete(i + 1, l[i].op)
    ELSE Fail

parse_dot_operator(l, i) == parse_operator(l, i, {"DOT"})
parse_sum_operator(l, i) == parse_operator(l, i, {"Add", "Sub"})
parse_product_operator(l, i) == parse_operator(l, i, {"Mul", "Div"})
parse_compare_operator(l, i) ==
    parse_operator(l, i, {"GT", "GTEqual", "LT", "LTEqual", "NotEqual", "Equal"})

tuple_to_binary_expression(kind, left, right) == EBinary(kind, left, right, ExprPos(left))

(* run!(rule): the parser a rule names, applied to the elements from i *)
RECURSIVE run(_, _, _)

(* do_binary_expr!: left => lowerrule, typ => oprule, right => lowerrule *)
binary_right(left, typ, right) ==
    IF right.res # "Complete" THEN right
    ELSE Complete(right.i, tuple_to_binary_expression(typ.val, left.val, right.val))

binary_typ(l, left, typ, lowerrule) ==
    IF typ.res # "Complete" THEN typ
    ELSE binary_right(left, typ, run(lowerrule, l, typ.i))

binary_left(l, left, oprule, lowerrule) ==
    IF left.res # "Complete" THEN left
    ELSE binary_typ(l, left, run(oprule, l, left.i), lowerrule)

do_binary_expr(l, i, oprule, lowerrule) ==
    binary_left(l, run(lowerrule, l, i), oprule, lowerrule)

dot_expression(l, i) == do_binary_expr(l, i, "parse_dot_operator", "parse_expression")

product_operand(l, i) == either2(dot_expression(l, i), parse_expression(l, i))
product_expression(l, i) == do_binary_expr(l, i, "parse_product_operator", "product_operand")

(* the operand of a sum that does not try product_expression *)
sum_operand_m(l, i) == either2(dot_expression(l, i), parse_expression(l, i))

sum_operand(l, i) ==
    either3(product_expression(l, i), dot_expression(l, i), parse_expression(l, i))
sum_expression(l, i) == do_binary_expr(l, i, "parse_sum_operator", "sum_operand")

math_expression(l, i) == either2(sum_expression(l, i), product_expression(l, i))

compare_operand(l, i) ==
    either3(math_expression(l, i), dot_expression(l, i), parse_expression(l, i))
compare_expression(l, i) == do_binary_expr(l, i, "parse_compare_operator", "compare_operand")

run(rule, l, i) ==
    CASE rule = "parse_expression" -> parse_expression(l, i)
      [] rule = "parse_dot_operator" -> parse_dot_operator(l, i)
      [] rule = "parse_product_operator" -> parse_product_operator(l, i)
      [] rule = "parse_sum_operator" -> parse_sum_operator(l, i)
      [] rule = "parse_compare_operator" -> parse_compare_operator(l, i)
      [] rule = "product_operand" -> product_operand(l, i)
      [] rule = "sum_operand" -> sum_operand(l, i)
      [] rule = "compare_operand" -> compare_operand(l, i)

binary_expression(l, i) ==
    either4(compare_expression(l, i), math_expression(l, i),
            dot_expression(l, i), parse_expression(l, i))

(* The tokens.  An operand token stands for the tokens of one              *)
(* non_op_expression, which parse_operand_list takes whole; a punctuation  *)
(* token carries its fragment.                                             *)
TOperand(x) == [t |-> "OPERAND", expr |-> x]
TPunct(f) == [t |-> "PUNCT", fragment |-> f]

OpOfPunct ==
    [f \in {".", "+", "-", "*", "/", "==", "!=", "<=", ">=", "<", ">"} |->
        CASE f = "." -> "DOT"
          [] f = "+" -> "Add"
          [] f = "-" -> "Sub"
          [] f = "*" -> "Mul"
          [] f = "/" -> "Div"
          [] f = "==" -> "Equal"
          [] f = "!=" -> "NotEqual"
          [] f = "<=" -> "LTEqual"
          [] f = ">=" -> "GTEqual"
          [] f = "<" -> "LT"
          [] f = ">" -> "GT"]

non_op_expression(toks, i) ==
    IF i <= Len(toks) /\ toks[i].t = "OPERAND" THEN Complete(i + 1, toks[i].expr) ELSE Fail

(* either!(dot_op_type, math_op_type, compare_op_type) *)
op_type(toks, i) ==
    IF i <= Len(toks) /\ toks[i].t = "PUNCT" /\ toks[i].fragment \in DOMAIN OpOfPunct
    THEN Complete(i + 1, ElOp(OpOfPunct[toks[i].fragment]))
    ELSE Fail

(* the loop of parse_operand_list *)
RECURSIVE operand_loop(_, _, _, _)
operand_loop(toks, i, list, firstrun) ==
    LET x == non_op_expression(toks, i)
        op == op_type(toks, x.i)
    IN IF x.res # "Complete" THEN x
       ELSE IF op.res = "Fail"
            THEN IF firstrun THEN Fail
                 ELSE Complete(x.i, Append(list, ElExpr(x.val)))
       ELSE operand_loop(toks, op.i, list \o <<ElExpr(x.val), op.val>>, FALSE)

parse_operand_list(toks) == operand_loop(toks, 1, <<>>, TRUE)

(* op_expression: the result, and the index of the first token after the   *)
(* operand list                                                            *)
reduce_oplist(toks, preparse, parse_result) ==
    CASE parse_result.res = "Complete" -> Complete(preparse.i, parse_result.val)
      [] parse_result.res = "Fail" -> Fail
      [] parse_result.res = "Abort" -> Abort

op_expression(toks) ==
    LET reduce(preparse) ==
            IF preparse.res # "Complete" THEN Fail
            ELSE reduce_oplist(toks, preparse, binary_expression(preparse.val, 1))
    IN reduce(parse_operand_list(toks))

(* The specification of op_expression: pending is the token stream still   *)
(* to read, stmt the stream op_expression was applied to, ret its result.  *)
OperatorPuncts == DOMAIN OpOfPunct

Operand(k) == TOperand(EInt(k, 2 * k - 1))

RECURSIVE OperandLists(_)
OperandLists(n) ==
    IF n = 1 THEN {<<Operand(1)>>}
    ELSE {l \o <<TPunct(f), Operand(n)>> : l \in OperandLists(n - 1), f \in OperatorPuncts}

Terminators == {<<>>, <<TPunct(";")>>, <<TPunct("+")>>}

OperatorTexts ==
    {l \o t : l \in UNION {OperandLists(n) : n \in 1..MaxOperands}, t \in Terminators}

PResult(x) ==
    CASE x.res = "Complete" -> Ok(x.val)
      [] x.res = "Fail" -> Err("ParseFail", 0)
      [] x.res = "Abort" -> Err("ParseAbort", 0)

InitOperators ==
    /\ b = new("/", EmptyMap, <<>>, "asc")
    /\ stmt = None
    /\ ret = Ok(VEmpty)
    /\ nstmts = 0
    /\ nbuilders = 1
    /\ pending \in OperatorTexts

ParseOperators ==
    /\ nstmts = 0
    /\ LET parsed(x) ==
               /\ ret' = PResult(x)
               /\ pending' = IF x.res = "Complete"
                             THEN SubSeq(pending, x.i, Len(pending)) ELSE pending
       IN parsed(op_expression(pending))
    /\ stmt' = Some(pending)
    /\ nstmts' = 1
    /\ UNCHANGED <<b, nbuilders>>

NextOperators == ParseOperators

SpecOperators == InitOperators /\ [][NextOperators]_vars

(* the operand list at the head of the tokens op_expression was applied to *)
Tokens == stmt[1]
IsOperatorToken(tok) == tok.t = "PUNCT" /\ tok.fragment \in OperatorPuncts
ListLen ==
    IF Tokens # <<>> /\ ~IsOperatorToken(Tokens[Len(Tokens)]) /\ Tokens[Len(Tokens)].t = "PUNCT"
    THEN Len(Tokens) - 1 ELSE Len(Tokens)
WellFormedList ==
    /\ ListLen >= 3
    /\ ListLen % 2 = 1
    /\ \A i \in 1..ListLen :
          IF i % 2 = 1 THEN Tokens[i].t = "OPERAND" ELSE IsOperatorToken(Tokens[i])
ListElements ==
    [i \in 1..ListLen |->
        IF i % 2 = 1 THEN ElExpr(Tokens[i].expr) ELSE ElOp(OpOfPunct[Tokens[i].fragment])]
OperandAt(k) == Tokens[2 * k - 1].expr
OperatorAt(k) == OpOfPunct[Tokens[2 * k].fragment]

(* how tightly an operator binds: selector access, then products, then     *)
(* sums, then comparisons                                                  *)
Level(kd) ==
    CASE kd = "DOT" -> 3
      [] kd \in {"Mul", "Div"} -> 2
      [] kd \in {"Add", "Sub"} -> 1
      [] OTHER -> 0

Tree(kd, left, right) == EBinary(kd, left, right, ExprPos(left))

RECURSIVE Flatten(_)
Flatten(x) ==
    IF x.e = "Binary" THEN Flatten(x.left) \o <<ElOp(x.kind)>> \o Flatten(x.right)
    ELSE <<ElExpr(x)>>

(* no operator of the tree stands below one that binds tighter than it *)
RECURSIVE Graded(_)
Graded(x) ==
    x.e = "Binary" =>
        /\ \A c \in {x.left, x.right} :
              c.e = "Binary" => Level(c.kind) >= Level(x.kind)
        /\ Graded(x.left)
        /\ Graded(x.right)

(* operators of one level group to the left: none is the right operand of  *)
(* another of its level                                                    *)
RECURSIVE LeftAssociative(_)
LeftAssociative(x) ==
    x.e = "Binary" =>
        /\ x.right.e = "Binary" => Level(x.right.kind) # Level(x.kind)
        /\ LeftAssociative(x.left)
        /\ LeftAssociative(x.right)

TwoOperators == WellFormedList /\ ListLen = 5

(* C18: the operator that binds tighter is grouped first wherever it       *)
(* stands: `.` before `*` `/`, these before `+` `-`, these before the      *)
(* comparisons; so `1 + 2 * 3` is `1 + (2 * 3)`, `2 * 3 + 1` is            *)
(* `(2 * 3) + 1`, `a.b + 1` is `(a.b) + 1` and `1 == 2 + 3` is             *)
(* `1 == (2 + 3)`, and no returned tree has a looser operator below a      *)
(* tighter one.                                                            *)
C18_TighterBindsFirst ==
    /\ (Parsed /\ TwoOperators /\ Level(OperatorAt(1)) # Level(OperatorAt(2))) =>
          /\ ret.ok
          /\ ret.val =
                IF Level(OperatorAt(1)) > Level(OperatorAt(2))
                THEN Tree(OperatorAt(2),
                          Tree(OperatorAt(1), OperandAt(1), OperandAt(2)), OperandAt(3))
                ELSE Tree(OperatorAt(1), OperandAt(1),
                          Tree(OperatorAt(2), OperandAt(2), OperandAt(3)))
    /\ (Parsed /\ WellFormedList /\ ret.ok) => Graded(ret.val)

(* `1 + 2 * 3` was parsed as `1 + (2 * 3)` *)
C18_Witness ==
    /\ Parsed
    /\ TwoOperators
    /\ OperatorAt(1) = "Add"
    /\ OperatorAt(2) = "Mul"
    /\ ret.ok
    /\ ret.val = Tree("Add", OperandAt(1), Tree("Mul", OperandAt(2), OperandAt(3)))

(* C19: for every well-formed operand list op_expression returns one tree  *)
(* that contains every operand and every operator of the list in their     *)
(* order, operators of one level grouped to the left.                      *)
C19_WholeListLeftAssoc ==
    (Parsed /\ WellFormedList) =>
        /\ ret.ok
        /\ Flatten(ret.val) = ListElements
        /\ LeftAssociative(ret.val)

(* what the parser does return: a tree over a prefix of the list *)
TreeOverPrefix ==
    (Parsed /\ WellFormedList) =>
        /\ ret.ok
        /\ Len(Flatten(ret.val)) <= ListLen
        /\ Flatten(ret.val) = SubSeq(ListElements, 1, Len(Flatten(ret.val)))

(* `e1 - e2 - e3` was parsed as `e1 - e2` *)
DroppedOperand ==
    /\ Parsed
    /\ TwoOperators
    /\ OperatorAt(1) = "Sub"
    /\ OperatorAt(2) = "Sub"
    /\ ret.ok
    /\ ret.val = Tree("Sub", OperandAt(1), OperandAt(2))

-----------------------------------------------------------------------------
(* Selecting from the env pseudo-tuple: Builders over environment          *)
(* snapshots of every content and order, strict or not, building files of  *)
(* `env.NAME;` statements.                                                 *)

MaxEnvVars == 2

EnvNames == {"HOME", "USER", "PATH"}
EnvValue(name) ==
    CASE name = "HOME" -> <<"h">>
      [] name = "USER" -> <<"u">>
      [] name = "PATH" -> <<"p">>

RECURSIVE Snapshots(_)
Snapshots(n) ==
    IF n = 0 THEN {<<>>}
    ELSE LET shorter == Snapshots(n - 1)
         IN shorter \cup
            {Append(q, <<name, EnvValue(name)>>) :
                q \in {s \in shorter : Len(s) = n - 1},
                name \in EnvNames}

EnvSnapshots ==
    {q \in Snapshots(MaxEnvVars) : \A i, j \in 1..Len(q) : q[i][1] = q[j][1] => i = j}

EnvStmts == {StExpression(ESel(ESym("env", 31), Some(<<Tok(name, 32)>>), 31)) : name \in EnvNames}
EnvFiles == SeqsUpTo(EnvStmts, MaxStmts) \ {<<>>}

set_strict(bb, to) == [bb EXCEPT !.strict = to]

InitEnv ==
    /\ \E fs \in EnvSnapshots, to \in BOOLEAN :
          b = set_strict(new_with_env_and_scope("/", EmptyMap, <<>>, "asc", EmptyMap, VEnv(fs)), to)
    /\ stmt = None
    /\ ret = Ok(VEmpty)
    /\ nstmts = 0
    /\ nbuilders = 1
    /\ pending \in EnvFiles

SelectEnv == NextIs("Expression") /\ BuildNext

NextEnv == SelectEnv

SpecEnv == InitEnv /\ [][NextEnv]_vars

(* the name the last statement selected from env, and where the snapshot   *)
(* holds it                                                                *)
EnvSelected == nstmts > 0
SelectedName == stmt[1].expr.sel.tail[1][1].fragment
PositionsOf(name) == {i \in 1..Len(b.env.vars) : b.env.vars[i][1] = name}

(* C20: env.NAME yields Str(value) whenever NAME is in the snapshot, in    *)
(* strict and non-strict mode and at any position; when NAME is absent it  *)
(* yields a NoSuchSymbol error in strict mode and Empty in non-strict      *)
(* mode, the empty snapshot included.                                      *)
C20_EnvLookup ==
    EnvSelected =>
        IF PositionsOf(SelectedName) # {}
        THEN ret = Ok(VStr(EnvValue(SelectedName)))
        ELSE IF b.strict THEN ~ret.ok /\ ret.kind = "NoSuchSymbol"
        ELSE ret = Ok(VEmpty)

(* what the loop does: strict mode is as claimed; outside strict mode only *)
(* the first entry of the snapshot is compared                             *)
FirstEntryDecides ==
    EnvSelected =>
        IF b.strict
        THEN IF PositionsOf(SelectedName) # {}
             THEN ret = Ok(VStr(EnvValue(SelectedName)))
             ELSE ~ret.ok /\ ret.kind = "NoSuchSymbol"
        ELSE IF b.env.vars = <<>> THEN ~ret.ok /\ ret.kind = "NoSuchSymbol"
        ELSE IF 1 \in PositionsOf(SelectedName)
             THEN ret = Ok(VStr(EnvValue(SelectedName)))
             ELSE ret = Ok(VEmpty)

(* outside strict mode a name held at the second position came out Empty *)
PresentYetEmpty ==
    /\ EnvSelected
    /\ ~b.strict
    /\ PositionsOf(SelectedName) = {2}
    /\ ret = Ok(VEmpty)

(* outside strict mode the empty snapshot gave an error *)
EmptySnapshotFails ==
    /\ EnvSelected
    /\ ~b.strict
    /\ b.env.vars = <<>>
    /\ ~ret.ok

-----------------------------------------------------------------------------
(* SpecSelf: a Builder whose scope binds t and u to two different tuples   *)
(* evaluates Copies of t whose overrides read `self`, directly and from    *)
(* the override of a Copy of u nested in them.                             *)

SelfBasesT == {<< <<"a", VInt(1)>> >>, << <<"a", VInt(1)>>, <<"b", VStr(<<"s">>)>> >>}
SelfBasesU == {<< <<"b", VInt(2)>> >>, <<>>}

SelfAtoms == {EInt(3, 20), ESym("self", 20)}
InnerCopies ==
    {ECopy(SelectorDef(ESym("u", 30), None, 30), FieldList(<< <<"d", x>> >>, 1), 30) :
        x \in SelfAtoms}
SelfExprs == SelfAtoms \cup InnerCopies
SelfOverrides ==
    {<< <<n, x>> >> : n \in {"a", "c"}, x \in SelfExprs}
    \cup {<< <<n, x>>, <<"e", y>> >> : n \in {"a", "c"}, x \in SelfExprs, y \in SelfExprs}
SelfStmts == {StExpression(ECopy(BaseSelector, FieldList(ovs, 1), 10)) : ovs \in SelfOverrides}

InitSelf ==
    /\ \E t \in SelfBasesT, u \in SelfBasesU :
          b = new_with_scope("/", EmptyMap, <<>>, "asc",
                             [n \in {"t", "u"} |-> IF n = "t" THEN VTuple(t) ELSE VTuple(u)])
    /\ stmt = None
    /\ ret = Ok(VEmpty)
    /\ nstmts = 0
    /\ nbuilders = 1
    /\ \E s \in SelfStmts : pending = <<s>>

CopyWithSelf == BuildNext

NextSelf == CopyWithSelf

SpecSelf == InitSelf /\ [][NextSelf]_vars

(* In the tuple a Copy returned, every field whose override is `self`      *)
(* holds the base of that Copy, and every field whose override is a Copy   *)
(* satisfies the same.                                                     *)
RECURSIVE SelfIsBase(_, _)
SelfIsBase(def, result) ==
    \A i \in 1..Len(def.fields) :
        LET x == def.fields[i][2]
            field == result.fields[IndexOfName(result.fields, def.fields[i][1].fragment, 1)][2]
        IN /\ (x.e = "Symbol" /\ x.sym = "self") =>
                 field = b.build_output[def.selector.head.sym]
           /\ x.e = "Copy" => SelfIsBase(x, field)

(* C21: while an override of a Copy is evaluated, `self` is the base tuple *)
(* of that Copy, for a Copy nested in an override the base of the inner    *)
(* Copy, never the partially overridden result nor another Copy's base.    *)
C21_SelfIsInnermostBase ==
    (LastCopy /\ ret.ok) => SelfIsBase(stmt[1].expr, ret.val)

(* what holds: `self` in an override of the outermost Copy is its base,    *)
(* also after an earlier override replaced a field and after a nested Copy *)
(* returned                                                                *)
OuterSelfIsBase ==
    (LastCopy /\ ret.ok) =>
        \A i \in 1..Len(Overrides) :
            (Overrides[i][2].e = "Symbol" /\ Overrides[i][2].sym = "self") =>
                ret.val.fields[IndexOfName(ret.val.fields, Overrides[i][1].fragment, 1)][2]
                    = b.build_output["t"]

(* `self` in the override of the nested Copy of u came out as t *)
InnerSelfIsOuterBase ==
    /\ LastCopy
    /\ ret.ok
    /\ Overrides[1][1].fragment = "c"
    /\ Overrides[1][2].e = "Copy"
    /\ Overrides[1][2].fields[1][2] = ESym("self", 20)
    /\ ret.val.fields[IndexOfName(ret.val.fields, "c", 1)][2].fields
          [IndexOfName(ret.val.fields[IndexOfName(ret.val.fields, "c", 1)][2].fields, "d", 1)][2]
          = b.build_output["t"]

-----------------------------------------------------------------------------
(* SpecTuple: tuple literals of up to MaxFields fields, names repeated or  *)
(* not, evaluated as expression statements.                                *)

MaxFields == 2

LiteralFields == {"a", "b"} \X {EInt(1, 20), EInt(2, 20), EStr(<<"s">>, 20), ESym("nosuch", 20)}
LiteralStmts ==
    {StExpression(ETuple(FieldList(fs, 1), 10)) : fs \in SeqsUpTo(LiteralFields, MaxFields)}

InitTuple ==
    /\ b = new("/", EmptyMap, <<>>, "asc")
    /\ stmt = None
    /\ ret = Ok(VEmpty)
    /\ nstmts = 0
    /\ nbuilders = 1
    /\ \E s \in LiteralStmts : pending = <<s>>

EvalTuple == BuildNext

NextTuple == EvalTuple

SpecTuple == InitTuple /\ [][NextTuple]_vars

LastTuple == Last("Expression") /\ stmt[1].expr.e = "Tuple"
Literal == stmt[1].expr.fields
LiteralNames == [i \in 1..Len(Literal) |-> Literal[i][1].fragment]
RepeatsName == \E i, j \in 1..Len(Literal) : i # j /\ LiteralNames[i] = LiteralNames[j]
AllLiterals == \A i \in 1..Len(Literal) : IsLiteral(Literal[i][2])

(* C22: a tuple literal that repeats a field name is rejected with an      *)
(* error, no Tuple value has two fields of one name, and a literal with    *)
(* distinct names yields its fields in source order.                       *)
C22_NoDuplicateFields ==
    LastTuple =>
        /\ RepeatsName => ~ret.ok
        /\ ret.ok => DistinctNames(ret.val.fields)
        /\ (~RepeatsName /\ AllLiterals) =>
              ret = Ok(VTuple([i \in 1..Len(Literal) |->
                                  <<LiteralNames[i], LitVal(Literal[i][2])>>]))

(* what tuple_to_val does: every field in source order, repeated or not *)
FieldsInSourceOrder ==
    (LastTuple /\ AllLiterals) =>
        ret = Ok(VTuple([i \in 1..Len(Literal) |->
                            <<LiteralNames[i], LitVal(Literal[i][2])>>]))

(* {a = 1, a = 2} evaluated to a tuple with two fields a *)
DuplicateFieldsKept ==
    /\ LastTuple
    /\ RepeatsName
    /\ ret.ok
    /\ Len(ret.val.fields) = 2
    /\ ret.val.fields[1][1] = ret.val.fields[2][1]

-----------------------------------------------------------------------------
(* SpecModule: a file binds m to a module and then copies it, as a         *)
(* statement of its own or from an override of a Copy of the tuple t.      *)
(*   M1  module{a = 1} => { let y = mod.a; }                               *)
(*   M2  module{} => { }                                                   *)
(*   M3  module{a = 1} => { let y = nosuch; }                              *)
(*   M4  module{a = 1} => { let y = 2; out json mod.a; }                   *)

ModuleDefs ==
    {EModule(<<Fld("a", 1, EInt(1, 41))>>,
             <<StLet(Tok("y", 42), ESel(ESym("mod", 43), Some(<<Tok("a", 44)>>), 43))>>, 40),
     EModule(<<>>, <<>>, 40),
     EModule(<<Fld("a", 1, EInt(1, 41))>>, <<StLet(Tok("y", 42), ESym("nosuch", 43))>>, 40),
     EModule(<<Fld("a", 1, EInt(1, 41))>>,
             <<StLet(Tok("y", 42), EInt(2, 43)),
               StOutput(Tok("json", 45), ESel(ESym("mod", 46), Some(<<Tok("a", 47)>>), 46))>>, 40)}

ModuleOverrides ==
    {<<>>,
     << <<"a", EInt(3, 20)>> >>,
     << <<"a", EStr(<<"t">>, 20)>> >>,
     << <<"c", EInt(4, 20)>> >>,
     << <<"a", ESym("nosuch", 20)>> >>}

ModuleCopies ==
    {ECopy(SelectorDef(ESym("m", 30), None, 30), FieldList(ovs, 1), 30) : ovs \in ModuleOverrides}

(* m{ ... };  and  t{c = m{ ... }, d = self}; *)
ModuleCopyStmts ==
    {StExpression(x) : x \in ModuleCopies}
    \cup {StExpression(ECopy(BaseSelector,
                             <<Fld("c", 1, x), Fld("d", 2, ESym("self", 20))>>, 10)) :
              x \in ModuleCopies}

ModuleFiles ==
    {<<StLet(Tok("m", 1), d), s>> : d \in ModuleDefs, s \in ModuleCopyStmts}

ModuleBase == VTuple(<< <<"a", VInt(1)>> >>)

InitModule ==
    /\ \E h \in Hashers :
          b = new_with_scope("/", EmptyMap, <<>>, h, [n \in {"t"} |-> ModuleBase])
    /\ stmt = None
    /\ ret = Ok(VEmpty)
    /\ nstmts = 0
    /\ nbuilders = 1
    /\ pending \in ModuleFiles

DefineModule == NextIs("Let") /\ BuildNext
CopyModule == NextIs("Expression") /\ BuildNext

NextModule == DefineModule \/ CopyModule

SpecModule == InitModule /\ [][NextModule]_vars

(* The Copy of m in the statement about to be built, the module it copies, *)
(* and what the claim says the Copy yields: the parameters are the Copy of *)
(* the default tuple under the rules of a tuple Copy, the bindings those   *)
(* of a fresh Builder over the scope {mod} after the module's statements.  *)
IsModuleCopy(x) == x.e = "Copy" /\ x.selector.head.sym = "m"
NextCopyOfModule ==
    IF IsModuleCopy(Head(pending).expr) THEN Head(pending).expr
    ELSE Head(pending).expr.fields[1][2]
CopiedModule == b.build_output["m"].def
FreshBuilder(scope) == new_with_scope("/", EmptyMap, <<>>, "asc", scope)
Parameters ==
    copy_from_base(push_val(FreshBuilder(EmptyMap), Unwrap(CopiedModule.arg_tuple)),
                   Unwrap(CopiedModule.arg_tuple).fields, NextCopyOfModule.fields).r
ChildBuilt ==
    eval_stmts(FreshBuilder([n \in {"mod"} |-> Parameters.val]),
               CopiedModule.statements, 1, None)
IsTupleOf(v, scope) ==
    /\ v.k = "Tuple"
    /\ Names(v.fields) = DOMAIN scope
    /\ Len(v.fields) = Cardinality(DOMAIN scope)
    /\ \A i \in 1..Len(v.fields) : v.fields[i][2] = scope[v.fields[i][1]]
Frame(bb) == <<bb.build_output, bb.out_lock, bb.stack>>

ExpectedOfCopy(result) ==
    IF ~Parameters.ok THEN result = Parameters
    ELSE IF ~ChildBuilt.r.ok THEN result = ChildBuilt.r
    ELSE result.ok /\ IsTupleOf(result.val, ChildBuilt.b.build_output)

(* C23: a Copy of a Module yields the Tuple of the bindings of a fresh     *)
(* child Builder, seeded with mod = the default parameters with the        *)
(* overrides applied as in a tuple Copy, after the module's statements     *)
(* ran; and the caller's scope, output lock and self stack are after the   *)
(* Copy what they were before it, so that an override following it in an   *)
(* enclosing tuple Copy still reads the tuple's base as `self`.            *)
C23_ModuleCopy ==
    [][(Stepped("Expression") /\ "m" \in DOMAIN b.build_output) =>
         /\ Frame(b') = Frame(b)
         /\ IF IsModuleCopy(stmt'[1].expr) THEN ExpectedOfCopy(ret')
            ELSE IF Parameters.ok /\ ChildBuilt.r.ok
                 THEN /\ ret'.ok
                      /\ ExpectedOfCopy(Ok(ret'.val.fields[IndexOfName(ret'.val.fields, "c", 1)][2]))
                      /\ ret'.val.fields[IndexOfName(ret'.val.fields, "d", 1)][2] = ModuleBase
                 ELSE ~ret'.ok]_vars

(* what holds: a Copy of a Module that is a statement of its own *)
TopLevelModuleCopy ==
    [][(Stepped("Expression") /\ "m" \in DOMAIN b.build_output
            /\ IsModuleCopy(stmt'[1].expr)) =>
         /\ Frame(b') = Frame(b)
         /\ ExpectedOfCopy(ret')]_vars

(* m{c = 4} over M1 returned the bindings mod and y *)
ModuleCopied ==
    /\ Last("Expression")
    /\ IsModuleCopy(stmt[1].expr)
    /\ ret.ok
    /\ ret.val.k = "Tuple"
    /\ Names(ret.val.fields) = {"mod", "y"}
    /\ Len(ret.val.fields[IndexOfName(ret.val.fields, "mod", 1)][2].fields) = 2

(* t{c = m{}, d = self} failed: `self` was unbound after the Copy of m *)
SelfLostAfterModuleCopy ==
    /\ Last("Expression")
    /\ ~IsModuleCopy(stmt[1].expr)
    /\ stmt[1].expr.fields[1][2].fields = <<>>
    /\ ret = Err("NoSuchSymbol", 20)

-----------------------------------------------------------------------------
(* SpecBuild: Builder::build over files of statements that bind, lock the  *)
(* output, assert, or fail.                                                *)

BuildFileStmts ==
    {StLet(Tok("x", 1), EInt(1, 10)),
     StLet(Tok("y", 1), EInt(2, 10)),
     StLet(Tok("x", 1), ESym("nosuch", 10)),
     StExpression(ESym("nosuch", 10)),
     StExpression(EBinary("Div", EInt(1, 1), EInt(0, 5), 3)),
     StOutput(Tok("json", 1), EInt(1, 10)),
     StAssert(Tok("false;", 1))}
BuildFiles == SeqsUpTo(BuildFileStmts, MaxStmts) \ {<<>>}

InitBuild ==
    /\ \E vm \in BOOLEAN :
          b = [new("/", EmptyMap, <<>>, "asc") EXCEPT !.validate_mode = vm]
    /\ stmt = None
    /\ ret = Ok(VEmpty)
    /\ nstmts = 0
    /\ nbuilders = 1
    /\ pending \in BuildFiles

BuildBinding == (NextIs("Let") \/ NextIs("Output")) /\ BuildNext
BuildOther == (NextIs("Expression") \/ NextIs("Assert")) /\ BuildNext

NextBuild == BuildBinding \/ BuildOther

SpecBuild == InitBuild /\ [][NextBuild]_vars

(* C24: build takes the statements in source order and ends at the first   *)
(* one that fails, whose result it returns: no statement after it is       *)
(* evaluated, so the scope, the output lock and the assertion collector    *)
(* stay as the failing statement left them, and the bindings of earlier    *)
(* statements remain in scope.                                             *)
C24_FirstErrorEndsBuild ==
    [][/\ (nstmts' = nstmts + 1) =>
             /\ ret.ok
             /\ stmt' = Some(Head(pending))
             /\ pending' = Tail(pending)
       /\ ~ret.ok => (b' = b /\ ret' = ret /\ nstmts' = nstmts)
       /\ \A n \in DOMAIN b.build_output :
             n \in DOMAIN b'.build_output /\ b'.build_output[n] = b.build_output[n]]_vars

(* `let x = 1; nosuch;`: the build ended on the error, x is still bound *)
C24_Witness ==
    /\ nstmts = 2
    /\ ret = Err("NoSuchSymbol", 10)
    /\ "x" \in DOMAIN b.build_output

(* `nosuch; let x = 1;`: the let after the failing statement was not built *)
LetAfterErrorNotBuilt ==
    /\ nstmts = 1
    /\ ~ret.ok
    /\ pending # <<>>
    /\ Head(pending).st = "Let"
    /\ b.build_output = EmptyMap

-----------------------------------------------------------------------------
(* SpecExpr: a Builder that has built the prelude                          *)
(*   let t = {a = 1};                                                      *)
(*   let f = macro(x) => {v = x};                                          *)
(*   let m = module{a = 1} => { let y = mod.a; out json y; assert |false;|; }; *)
(*   out json 1;                                                           *)
(*   assert |false;|;                                                      *)
(* evaluates one expression of every construct as an expression statement. *)

Prelude ==
    <<StLet(Tok("t", 1), ETuple(<<Fld("a", 1, EInt(1, 2))>>, 2)),
      StLet(Tok("f", 3), EMacro(<<"x">>, <<Fld("v", 1, ESym("x", 4))>>, 4)),
      StLet(Tok("m", 5),
            EModule(<<Fld("a", 1, EInt(1, 6))>>,
                    <<StLet(Tok("y", 7), ESel(ESym("mod", 8), Some(<<Tok("a", 9)>>), 8)),
                      StOutput(Tok("json", 10), ESym("y", 11)),
                      StAssert(Tok("false;", 12))>>, 6)),
      StOutput(Tok("json", 13), EInt(1, 14)),
      StAssert(Tok("false;", 15))>>

ExprArgs ==
    {EInt(1, 21), ESym("t", 21), ESym("nosuch", 21), ESym("self", 21),
     EBinary("Div", EInt(1, 21), EInt(0, 21), 21)}

ExprsOver(a) ==
    {a,
     EGrouped(a),
     ESel(ESym("t", 20), Some(<<Tok("a", 22)>>), 20),
     ESel(ESym("env", 20), Some(<<Tok("HOME", 22)>>), 20),
     ESel(a, Some(<<Tok("zz", 22)>>), 20),
     ETuple(<<Fld("a", 1, a)>>, 20),
     EList(<<a>>, 20),
     EBinary("Add", EInt(1, 20), a, 20),
     ECompare("Equal", EInt(1, 20), a, 20),
     ECopy(Sel("t", 20), <<Fld("a", 1, a)>>, 20),
     ECopy(Sel("m", 20), <<Fld("a", 1, a)>>, 20),
     ECopy(Sel("m", 20), <<Fld("c", 1, a)>>, 20),
     ECall(Sel("f", 20), <<a>>, 20),
     ESelect(EStr(<<"a">>, 20), a, <<Fld("a", 1, EInt(2, 20))>>, 20),
     ESelect(EStr(<<"b">>, 20), a, <<Fld("a", 1, EInt(2, 20))>>, 20),
     EListOp("Map", Sel("f", 20), "v", EList(<<a>>, 20), 20),
     EListOp("Filter", Sel("f", 20), "v", EList(<<a>>, 20), 20),
     EMacro(<<"x">>, <<Fld("v", 1, a)>>, 20),
     EModule(<<Fld("a", 1, a)>>, <<>>, 20)}

ExprStmts == {StExpression(x) : x \in UNION {ExprsOver(a) : a \in ExprArgs}}

InitExpr ==
    /\ \E vm \in BOOLEAN :
          b = eval_stmts([new("/", EmptyMap, <<>>, "asc") EXCEPT !.validate_mode = vm],
                         Prelude, 1, None).b
    /\ stmt = None
    /\ ret = Ok(VEmpty)
    /\ nstmts = 0
    /\ nbuilders = 1
    /\ \E s \in ExprStmts : pending = <<s>>

EvalExpr == NextIs("Expression") /\ BuildNext

NextExpr == EvalExpr

SpecExpr == InitExpr /\ [][NextExpr]_vars

Collected(bb) == <<bb.build_output, bb.out_lock, bb.assert_collector>>

-----------------------------------------------------------------------------
(* C26: an Assert statement in validate mode changes only the assertion    *)
(* collector: whatever its fragment parses to, the scope bindings and the  *)
(* output lock are after the assert what they were before it.              *)
C26_AssertFrame ==
    [][(Stepped("Assert") /\ b.validate_mode) =>
         /\ b'.build_output = b.build_output
         /\ b'.out_lock = b.out_lock]_vars

(* assert |let x = 1;| bound x in the scope of the Builder *)
AssertBoundName ==
    /\ Last("Assert")
    /\ b.validate_mode
    /\ stmt[1].tok.fragment = "let x = 1;"
    /\ "x" \in DOMAIN b.build_output
    /\ b.build_output["x"] = VInt(1)

-----------------------------------------------------------------------------
(* SpecBalance: a Builder whose scope binds t to {a = 1} and d to a tuple  *)
(* with a repeated field builds files of Copies, asserts over Copies and   *)
(* the statement `self;`.                                                  *)

BalanceCopies ==
    {ECopy(BaseSelector, FieldList(<< <<"a", EInt(2, 20)>> >>, 1), 10),
     ECopy(BaseSelector, FieldList(<< <<"a", EStr(<<"s">>, 20)>> >>, 1), 10),
     ECopy(BaseSelector, FieldList(<< <<"a", ESym("nosuch", 20)>> >>, 1), 10),
     ECopy(BaseSelector, FieldList(<< <<"c", ESym("self", 20)>>, <<"e", ESym("nosuch", 20)>> >>, 1), 10),
     ECopy(SelectorDef(ESym("d", 10), None, 10), <<>>, 10)}
BalanceStmts ==
    {StExpression(x) : x \in BalanceCopies}
    \cup {StExpression(ECopy(BaseSelector, <<Fld("c", 1, x)>>, 10)) : x \in BalanceCopies}
    \cup {StAssert(Tok(f, 1)) : f \in {"t{a = 2};", "t{a = nosuch};", "true;"}}
    \cup {StExpression(ESym("self", 10))}
BalanceFiles == SeqsUpTo(BalanceStmts, MaxStmts) \ {<<>>}

BalanceScope ==
    [n \in {"t", "d"} |->
        IF n = "t" THEN VTuple(<< <<"a", VInt(1)>> >>)
        ELSE VTuple(<< <<"a", VInt(1)>>, <<"a", VInt(2)>> >>)]

InitBalance ==
    /\ \E vm \in BOOLEAN :
          b = [new_with_scope("/", EmptyMap, <<>>, "asc", BalanceScope)
                  EXCEPT !.validate_mode = vm]
    /\ stmt = None
    /\ ret = Ok(VEmpty)
    /\ nstmts = 0
    /\ nbuilders = 1
    /\ pending \in BalanceFiles

BuildCopy == NextIs("Expression") /\ BuildNext
AssertCopy == NextIs("Assert") /\ BuildNext

NextBalance == BuildCopy \/ AssertCopy

SpecBalance == InitBalance /\ [][NextBalance]_vars

LastSelf == Last("Expression") /\ stmt[1].expr = ESym("self", 10)

(* C27: the self stack is balanced across every Copy, returned with a      *)
(* value or with an error, so that between statements it is empty and      *)
(* `self` outside a Copy is unbound, also after failed asserts.            *)
C27_SelfStackBalanced ==
    /\ b.stack = <<>>
    /\ LastSelf => ret = Err("NoSuchSymbol", 10)

(* what holds: a Copy whose override expressions all evaluate leaves the   *)
(* stack as it was, whether it returns a tuple or fails on a repeated base *)
(* field or on an override of another type                                 *)
BalancedUnlessOverrideFails ==
    [][(/\ Stepped("Expression")
        /\ stmt'[1].expr.e = "Copy"
        /\ \A i \in 1..Len(stmt'[1].expr.fields) : IsLiteral(stmt'[1].expr.fields[i][2]))
          => b'.stack = b.stack]_vars

(* validate mode, assert |t{a = nosuch};|; self;  yields the tuple t *)
SelfBoundOutsideCopy ==
    /\ LastSelf
    /\ nstmts = 2
    /\ ret = Ok(BalanceScope["t"])

-----------------------------------------------------------------------------
(* SpecSelector: selectors of up to MaxTail segments over a scope that     *)
(* binds a tuple, a list, an Int and a string.                             *)
(*   t = {a = 1, l = [1, 2], u = {b = 2}}   l = [1, {b = 2}]   n = 1   s = "s" *)

MaxTail == 2

SelectorScope ==
    [n \in {"t", "l", "n", "s"} |->
        CASE n = "t" -> VTuple(<< <<"a", VInt(1)>>,
                                  <<"l", VList(<<VInt(1), VInt(2)>>)>>,
                                  <<"u", VTuple(<< <<"b", VInt(2)>> >>)>> >>)
          [] n = "l" -> VList(<<VInt(1), VTuple(<< <<"b", VInt(2)>> >>)>>)
          [] n = "n" -> VInt(1)
          [] n = "s" -> VStr(<<"s">>)]

Segments == {"a", "l", "u", "b", "zz", "0", "1", "2"}
RECURSIVE Tail_(_, _)
Tail_(segs, i) ==
    IF i > Len(segs) THEN <<>> ELSE <<Tok(segs[i], 10 + i)>> \o Tail_(segs, i + 1)
SelectorTails == {Tail_(segs, 1) : segs \in SeqsUpTo(Segments, MaxTail) \ {<<>>}}
SelectorStmts ==
    {StExpression(ESel(ESym(h, 10), Some(tl), 10)) :
        h \in {"t", "l", "n", "s"}, tl \in SelectorTails}

InitSelector ==
    /\ b = new_with_scope("/", EmptyMap, <<>>, "asc", SelectorScope)
    /\ stmt = None
    /\ ret = Ok(VEmpty)
    /\ nstmts = 0
    /\ nbuilders = 1
    /\ \E s \in SelectorStmts : pending = <<s>>

Select == NextIs("Expression") /\ BuildNext

NextSelector == Select

SpecSelector == InitSelector /\ [][NextSelector]_vars

(* What the claim says of a tail applied to a value: a missing field or an *)
(* index past the end is NoSuchSymbol at the segment, a segment applied to *)
(* a value that is no Tuple, List or Env is TypeFail at the segment.  A    *)
(* segment that is no number applied to a List is left to be any error.    *)
IsIndex(frag) == frag \in {"0", "1", "2"}
IndexOf(frag) == CASE frag = "0" -> 0 [] frag = "1" -> 1 [] frag = "2" -> 2
AnyError == [ok |-> FALSE, kind |-> "any", pos |-> 0]

RECURSIVE Walk(_, _, _)
Walk(v, tl, i) ==
    IF i > Len(tl) THEN Ok(v)
    ELSE CASE v.k = "Tuple" ->
                IF tl[i].fragment \in Names(v.fields)
                THEN Walk(v.fields[IndexOfName(v.fields, tl[i].fragment, 1)][2], tl, i + 1)
                ELSE Err("NoSuchSymbol", tl[i].pos)
           [] v.k = "List" ->
                IF ~IsIndex(tl[i].fragment) THEN AnyError
                ELSE IF IndexOf(tl[i].fragment) < Len(v.elems)
                     THEN Walk(v.elems[IndexOf(tl[i].fragment) + 1], tl, i + 1)
                     ELSE Err("NoSuchSymbol", tl[i].pos)
           [] OTHER -> Err("TypeFail", tl[i].pos)

LastSelector == Last("Expression") /\ stmt[1].expr.e = "Selector"
SelHead == b.build_output[stmt[1].expr.sel.head.sym]
SelTail == stmt[1].expr.sel.tail[1]
AsClaimed ==
    IF Walk(SelHead, SelTail, 1) = AnyError THEN ~ret.ok /\ ret.kind # "panic"
    ELSE ret = Walk(SelHead, SelTail, 1)

(* C28: lookup_selector returns a value or an error value for every        *)
(* selector: NoSuchSymbol at the segment that names a missing field or an  *)
(* index past the end, TypeFail at the segment applied to a head or an     *)
(* intermediate value that is no Tuple, List or Env; it never aborts.      *)
C28_SelectorTotal == LastSelector => AsClaimed

(* what holds: the same for the selectors whose head is a Tuple or a List *)
ContainerHeadTotal ==
    (LastSelector /\ SelHead.k \in {"Tuple", "List"}) => AsClaimed

(* t.a.b failed with TypeFail at b: the intermediate value 1 is an Int *)
IntermediateTypeFail ==
    /\ LastSelector
    /\ stmt[1].expr.sel.head.sym = "t"
    /\ Len(SelTail) = 2
    /\ SelTail[1].fragment = "a"
    /\ ret = Err("TypeFail", SelTail[2].pos)

(* n.a, with n an Int, made the evaluator panic *)
IntHeadPanics ==
    /\ LastSelector
    /\ SelHead = VInt(1)
    /\ ret = Panic

-----------------------------------------------------------------------------
(* SpecImport: files of imports over every source file, among them the     *)
(* file that imports itself, the two files that import each other and the  *)
(* file that imports itself after another import.                          *)

CycleImports == {StImport(Tok(p, 1), Tok(nm, 2)) : p \in DOMAIN Files, nm \in {"a", "x"}}
ImportFiles == SeqsUpTo(CycleImports, MaxStmts) \ {<<>>}

InitImport ==
    /\ b = new("/", EmptyMap, <<>>, "asc")
    /\ stmt = None
    /\ ret = Ok(VEmpty)
    /\ nstmts = 0
    /\ nbuilders = 1
    /\ pending \in ImportFiles

ImportFile == NextIs("Import") /\ BuildNext

NextImport == ImportFile

SpecImport == InitImport /\ [][NextImport]_vars

(* the files from which an import chain leads back to a file of the chain *)
CyclicFiles == {"/s.ucg", "/p.ucg", "/q.ucg", "/r.ucg"}

(* C29: building terminates with a value or an error for every set of      *)
(* source files, also when a file imports itself directly or through       *)
(* other files: no import recurses without bound.                          *)
C29_ImportTerminates == ret.ok \/ ret.kind # "overflow"

(* what holds: an import of a file from which no chain of imports leads    *)
(* back to it returns                                                      *)
AcyclicImportReturns ==
    [][(Stepped("Import") /\ stmt'[1].path.fragment \notin CyclicFiles) =>
          (ret'.ok \/ ret'.kind # "overflow")]_vars

(* import "/s.ucg" recursed without end *)
SelfImportOverflows ==
    /\ Last("Import")
    /\ stmt[1].path.fragment = "/s.ucg"
    /\ ret = Overflow

(* import "/b.ucg", which imports /a.ucg, returned the bindings of /b.ucg *)
ChainImported ==
    /\ Last("Import")
    /\ stmt[1].path.fragment = "/b.ucg"
    /\ ret.ok
    /\ Names(ret.val.fields) = {"a", "z"}

-----------------------------------------------------------------------------
(* The opcode VM (build/opcode/mod.rs).  A VM is its value stack and its   *)
(* symbol table; SpecVM lets the op pointer hand the VM any op of Ops at   *)
(* each step, which covers every op vector over Ops, jumps included.       *)

MaxStack == 3

Int_(i) == [t |-> "Int", i |-> i]
Str(s) == [t |-> "Str", s |-> s]
S(s) == [k |-> "S", s |-> s]
P(p) == [k |-> "P", p |-> p]
List(elems) == [c |-> "List", elems |-> elems]
Tuple(flds) == [c |-> "Tuple", flds |-> flds]
C(c) == [k |-> "C", c |-> c]

VM_new == [stack |-> <<>>, symbols |-> <<>>]

VmOk(vm) == [ok |-> TRUE, vm |-> vm]
VmErr(vm) == [ok |-> FALSE, vm |-> vm]

push(vm, p) == VmOk([vm EXCEPT !.stack = Append(@, p)])

pop(vm) ==
    IF vm.stack = <<>> THEN [ok |-> FALSE, vm |-> vm]
    ELSE [ok |-> TRUE, val |-> vm.stack[Len(vm.stack)],
          vm |-> [vm EXCEPT !.stack = SubSeq(@, 1, Len(@) - 1)]]

merge_field_into_tuple_m(src_fields, name, value) == Append(src_fields, <<name, value>>)

merge_field_into_tuple(src_fields, name, value) ==
    IF \E i \in 1..Len(src_fields) : src_fields[i][1] = name
    THEN LET i == CHOOSE i \in 1..Len(src_fields) :
                      /\ src_fields[i][1] = name
                      /\ \A j \in 1..(i - 1) : src_fields[j][1] # name
         IN [src_fields EXCEPT ![i] = <<name, value>>]
    ELSE Append(src_fields, <<name, value>>)

IsName(v) == v.k = "S" \/ (v.k = "P" /\ v.p.t = "Str")
NameOf(v) == IF v.k = "S" THEN v.s ELSE v.p.s
IsTuple(v) == v.k = "C" /\ v.c.c = "Tuple"

op_field(vm) ==
    LET val == pop(vm)
        name == pop(val.vm)
        tpl == pop(name.vm)
    IN IF ~val.ok THEN VmErr(val.vm)
       ELSE IF ~name.ok THEN VmErr(name.vm)
       ELSE IF ~IsName(name.val) THEN VmErr(name.vm)
       ELSE IF ~tpl.ok THEN VmErr(tpl.vm)
       ELSE IF IsTuple(tpl.val)
       THEN push(tpl.vm, C(Tuple(merge_field_into_tuple(tpl.val.c.flds, NameOf(name.val), val.val))))
       ELSE VmErr(tpl.vm)

op_copy(vm) ==
    LET x == pop(vm)
    IN IF ~x.ok THEN VmErr(x.vm)
       ELSE IF IsTuple(x.val) THEN push(push(x.vm, x.val).vm, x.val)
       ELSE VmErr(x.vm)

OpVal(p) == [op |-> "Val", p |-> p]
OpSym(s) == [op |-> "Sym", s |-> s]
Nullary(op) == [op |-> op]

vm_op(vm, op) ==
    CASE op.op = "Val" -> push(vm, P(op.p))
      [] op.op = "Sym" -> push(vm, S(op.s))
      [] op.op = "InitList" -> push(vm, C(List(<<>>)))
      [] op.op = "InitTuple" -> push(vm, C(Tuple(<<>>)))
      [] op.op = "Field" -> op_field(vm)
      [] op.op = "Cp" -> op_copy(vm)
      [] op.op = "Pop" -> LET x == pop(vm) IN IF x.ok THEN VmOk(x.vm) ELSE VmErr(x.vm)

VmVals == {Int_(1), Str("a")}
VmSyms == {"a", "b"}

InitVM ==
    /\ b = VM_new
    /\ stmt = <<>>
    /\ ret = Ok(0)
    /\ nstmts = 0
    /\ nbuilders = 0
    /\ pending = <<>>

\* One turn of the loop of VM::run: the op the pointer hands out is run, and
\* an Err ends the run.  stmt is the op just run and pending the stack a
\* Field op was run on.
Run(op) ==
    /\ ret.ok
    /\ LET x == vm_op(b, op)
       IN /\ Len(x.vm.stack) <= MaxStack
          /\ b' = x.vm
          /\ ret' = IF x.ok THEN Ok(0) ELSE Err("Error", 0)
    /\ stmt' = <<op>>
    /\ pending' = IF op.op = "Field" THEN b.stack ELSE <<>>
    /\ UNCHANGED <<nstmts, nbuilders>>

RunVal == \E p \in VmVals : Run(OpVal(p))
RunSym == \E s \in VmSyms : Run(OpSym(s))
RunInitTuple == Run(Nullary("InitTuple"))
RunInitList == Run(Nullary("InitList"))
RunField == Run(Nullary("Field"))
RunCp == Run(Nullary("Cp"))
RunPop == Run(Nullary("Pop"))

NextVM ==
    \/ RunVal
    \/ RunSym
    \/ RunInitTuple
    \/ RunInitList
    \/ RunField
    \/ RunCp
    \/ RunPop

SpecVM == InitVM /\ [][NextVM]_vars

Distinct(flds) == \A i, j \in 1..Len(flds) : flds[i][1] = flds[j][1] => i = j

RECURSIVE DistinctWithin(_)
DistinctWithin(v) ==
    IF IsTuple(v)
    THEN /\ Distinct(v.c.flds)
         /\ \A i \in 1..Len(v.c.flds) : DistinctWithin(v.c.flds[i][2])
    ELSE TRUE

DistinctFieldNames == \A i \in 1..Len(b.stack) : DistinctWithin(b.stack[i])

\* the n-th entry of the stack counted from its top, and what lies below the
\* n topmost entries
Top(n) == b.stack[Len(b.stack) + 1 - n]
Below(n) == SubSeq(b.stack, 1, Len(b.stack) - n)

HasField(flds, name) == \E i \in 1..Len(flds) : flds[i][1] = name

Merged(flds, name, val) ==
    IF HasField(flds, name)
    THEN [i \in 1..Len(flds) |-> IF flds[i][1] = name THEN <<name, val>> ELSE flds[i]]
    ELSE flds \o << <<name, val>> >>

FieldRuns == stmt' = <<Nullary("Field")>>

Mergeable ==
    /\ Len(b.stack) >= 3
    /\ IsName(Top(2))
    /\ IsTuple(Top(3))

FieldMerges ==
    IF Mergeable
    THEN /\ ret'.ok
         /\ b'.stack = Append(Below(3), C(Tuple(Merged(Top(3).c.flds, NameOf(Top(2)), Top(1)))))
    ELSE ~ret'.ok

\* C30: every tuple of the VM's stack, nested ones included, has pairwise
\* distinct field names after every op.  A Field op whose three topmost
\* entries are a value, a symbol or string and a tuple takes the three off
\* the stack and puts one tuple in their place: the old tuple with the value
\* at the position of the name when the tuple has the name, and with the
\* field added at its end when it has not.  Any other Field op (a name that
\* is no symbol or string, a third entry that is no tuple, fewer than three
\* entries) returns Error.
C30_FieldKeepsNamesDistinct ==
    [][DistinctFieldNames' /\ (FieldRuns => FieldMerges)]_vars

FieldRan ==
    /\ stmt = <<Nullary("Field")>>
    /\ ret.ok
    /\ Len(pending) = 3
    /\ Len(pending[1].c.flds) = 2

FieldReplaced ==
    /\ FieldRan
    /\ pending[1].c.flds[1][1] = NameOf(pending[2])
    /\ pending[1].c.flds[1][2] # pending[3]
    /\ b.stack = <<C(Tuple(<< <<NameOf(pending[2]), pending[3]>>, pending[1].c.flds[2] >>))>>

FieldAppended ==
    /\ stmt = <<Nullary("Field")>>
    /\ ret.ok
    /\ Len(pending) = 3
    /\ Len(pending[1].c.flds) = 1
    /\ Len(b.stack[1].c.flds) = 2

FieldRejected ==
    /\ stmt = <<Nullary("Field")>>
    /\ ~ret.ok
    /\ Len(pending) = 3

====
